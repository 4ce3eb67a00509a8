-------------------------- MODULE HTTPParserProofs --------------------------
(***************************************************************************)
(* Proofs about HTTPParser for any requests, cut off anywhere or damaged   *)
(* with any character, and for both builds.                                *)
(***************************************************************************)
EXTENDS HTTPParser, SequenceTheorems, WellFoundedInduction, TLAPS

-----------------------------------------------------------------------------
(* Words.                                                                  *)

Words == Seq(Char)

LEMMA Characters ==
  /\ CRLF \in Words /\ Len(CRLF) = 2 /\ CRLF[1] = CR /\ CRLF[2] = LF /\ <<SP>> \in Words
  /\ CR \notin Blank /\ LF \notin Blank /\ SP \in Blank
  <1>1. CR \in Char /\ LF \in Char /\ SP \in Char
    BY SentAssumption DEF Letters
  <1>2. CRLF \in Words /\ <<SP>> \in Words
    BY <1>1 DEF CRLF, Words
  <1>3. Len(CRLF) = 2 /\ CRLF[1] = CR /\ CRLF[2] = LF
    BY DEF CRLF
  <1>4. CR \notin Blank /\ LF \notin Blank /\ SP \in Blank
    BY DEF Blank, CR, LF, SP, HT
  <1> QED BY <1>2, <1>3, <1>4

LEMMA Spelled ==
  ASSUME NEW m \in DOMAIN Spell
  PROVE  Spell[m] \in Words /\ Len(Spell[m]) \in 3 .. 7
  <1>1. m \in {"GET", "POST", "PUT", "DELETE", "HEAD", "OPTIONS", "TRACE", "CONNECT"}
    BY DEF Spell
  <1>2. {"A", "C", "D", "E", "G", "H", "I", "L", "N", "O", "P", "R", "S", "T", "U"} \subseteq Char
    BY SentAssumption DEF Letters
  <1>3. Spell["GET"] \in Words /\ Len(Spell["GET"]) = 3
    <2>1. <<"G", "E", "T">> \in Words /\ Len(<<"G", "E", "T">>) = 3
      BY <1>2 DEF Words
    <2>2. Spell["GET"] = <<"G", "E", "T">>
      BY DEF Spell
    <2> QED BY <2>1, <2>2
  <1>4. Spell["POST"] \in Words /\ Len(Spell["POST"]) = 4
    <2>1. <<"P", "O", "S", "T">> \in Words /\ Len(<<"P", "O", "S", "T">>) = 4
      BY <1>2 DEF Words
    <2>2. Spell["POST"] = <<"P", "O", "S", "T">>
      BY DEF Spell
    <2> QED BY <2>1, <2>2
  <1>5. Spell["PUT"] \in Words /\ Len(Spell["PUT"]) = 3
    <2>1. <<"P", "U", "T">> \in Words /\ Len(<<"P", "U", "T">>) = 3
      BY <1>2 DEF Words
    <2>2. Spell["PUT"] = <<"P", "U", "T">>
      BY DEF Spell
    <2> QED BY <2>1, <2>2
  <1>6. Spell["DELETE"] \in Words /\ Len(Spell["DELETE"]) = 6
    <2>1. <<"D", "E", "L", "E", "T", "E">> \in Words /\ Len(<<"D", "E", "L", "E", "T", "E">>) = 6
      BY <1>2 DEF Words
    <2>2. Spell["DELETE"] = <<"D", "E", "L", "E", "T", "E">>
      BY DEF Spell
    <2> QED BY <2>1, <2>2
  <1>7. Spell["HEAD"] \in Words /\ Len(Spell["HEAD"]) = 4
    <2>1. <<"H", "E", "A", "D">> \in Words /\ Len(<<"H", "E", "A", "D">>) = 4
      BY <1>2 DEF Words
    <2>2. Spell["HEAD"] = <<"H", "E", "A", "D">>
      BY DEF Spell
    <2> QED BY <2>1, <2>2
  <1>8. Spell["OPTIONS"] \in Words /\ Len(Spell["OPTIONS"]) = 7
    <2>1. <<"O", "P", "T", "I", "O", "N", "S">> \in Words /\ Len(<<"O", "P", "T", "I", "O", "N", "S">>) = 7
      BY <1>2 DEF Words
    <2>2. Spell["OPTIONS"] = <<"O", "P", "T", "I", "O", "N", "S">>
      BY DEF Spell
    <2> QED BY <2>1, <2>2
  <1>9. Spell["TRACE"] \in Words /\ Len(Spell["TRACE"]) = 5
    <2>1. <<"T", "R", "A", "C", "E">> \in Words /\ Len(<<"T", "R", "A", "C", "E">>) = 5
      BY <1>2 DEF Words
    <2>2. Spell["TRACE"] = <<"T", "R", "A", "C", "E">>
      BY DEF Spell
    <2> QED BY <2>1, <2>2
  <1>10. Spell["CONNECT"] \in Words /\ Len(Spell["CONNECT"]) = 7
    <2>1. <<"C", "O", "N", "N", "E", "C", "T">> \in Words /\ Len(<<"C", "O", "N", "N", "E", "C", "T">>) = 7
      BY <1>2 DEF Words
    <2>2. Spell["CONNECT"] = <<"C", "O", "N", "N", "E", "C", "T">>
      BY DEF Spell
    <2> QED BY <2>1, <2>2
  <1> QED BY <1>1, <1>3, <1>4, <1>5, <1>6, <1>7, <1>8, <1>9, <1>10

\* u is s and then t.
Joined(u, s, t) ==
  /\ u \in Words /\ Len(u) = Len(s) + Len(t) /\ Len(s) \in Nat /\ Len(t) \in Nat
  /\ \A k \in 1 .. Len(s) : u[k] = s[k]
  /\ \A k \in 1 .. Len(t) : u[Len(s) + k] = t[k]

LEMMA Glued ==
  ASSUME NEW s \in Words, NEW t \in Words
  PROVE  Joined(s \o t, s, t) /\ s \o t \in Words
  <1>1. /\ s \o t \in Words /\ Len(s \o t) = Len(s) + Len(t) /\ Len(s) \in Nat /\ Len(t) \in Nat
        /\ \A k \in 1 .. Len(s) : (s \o t)[k] = s[k]
        /\ \A k \in 1 .. Len(t) : (s \o t)[Len(s) + k] = t[k]
    BY DEF Words
  <1> QED BY <1>1, Zenon DEF Joined

LEMMA JoinedKeeps ==
  ASSUME NEW u, NEW s, NEW t, Joined(u, s, t), NEW n \in Nat, Len(s) >= n
  PROVE  u \in Words /\ Len(u) >= n /\ \A k \in 1 .. n : u[k] = s[k]
  BY DEF Joined

LEMMA HTTPWord ==
  /\ HTTP \in Words /\ Len(HTTP) = 5
  /\ HTTP[1] = "H" /\ HTTP[2] = "T" /\ HTTP[3] = "T" /\ HTTP[4] = "P" /\ HTTP[5] = "/"
  BY SentAssumption DEF HTTP, Words, Letters

LEMMA VersionWords ==
  ASSUME NEW v \in DOMAIN HTTP_VERSION_STRINGS
  PROVE  /\ HTTP_VERSION_STRINGS[v] \in Words /\ Len(HTTP_VERSION_STRINGS[v]) = 8
         /\ \A k \in 1 .. 5 : HTTP_VERSION_STRINGS[v][k] = HTTP[k]
         /\ HTTP_VERSION_STRINGS[v][6] \in {"1", "2"} /\ HTTP_VERSION_STRINGS[v][7] = "."
         /\ HTTP_VERSION_STRINGS[v][8] \in {"0", "1"}
         /\ v = "HTTP_2_0" <=> HTTP_VERSION_STRINGS[v][6] = "2"
         /\ v = "HTTP_1_1" <=> HTTP_VERSION_STRINGS[v][8] = "1"
  <1>1. v \in {"HTTP_1_0", "HTTP_1_1", "HTTP_2_0"}
    BY DEF HTTP_VERSION_STRINGS
  <1>2. {"0", "1", "2", "."} \subseteq Char
    BY SentAssumption DEF Letters
  <1>3. ASSUME NEW end \in Words, Len(end) = 3, NEW word, word = HTTP \o end
        PROVE  /\ word \in Words /\ Len(word) = 8 /\ \A k \in 1 .. 5 : word[k] = HTTP[k]
               /\ word[6] = end[1] /\ word[7] = end[2] /\ word[8] = end[3]
    <2>1. /\ word \in Words /\ Len(word) = 8
          /\ \A k \in 1 .. 5 : word[k] = HTTP[k]
          /\ \A k \in 1 .. 3 : word[5 + k] = end[k]
      <3>1. Joined(word, HTTP, end)
        BY <1>3, Glued, HTTPWord, Zenon
      <3> QED BY <1>3, <3>1, HTTPWord DEF Joined
    <2>2. word[5 + 1] = end[1] /\ word[5 + 2] = end[2] /\ word[5 + 3] = end[3]
      BY <2>1
    <2> QED BY <1>3, <2>1, <2>2
  <1>4. /\ HTTP_VERSION_STRINGS["HTTP_1_0"] = HTTP \o <<"1", ".", "0">>
        /\ HTTP_VERSION_STRINGS["HTTP_1_1"] = HTTP \o <<"1", ".", "1">>
        /\ HTTP_VERSION_STRINGS["HTTP_2_0"] = HTTP \o <<"2", ".", "0">>
    BY DEF HTTP_VERSION_STRINGS
  <1>5. CASE v = "HTTP_1_0"
    <2> DEFINE word == HTTP_VERSION_STRINGS["HTTP_1_0"]
               end == <<"1", ".", "0">>
    <2>0. end \in Words /\ Len(end) = 3
      BY <1>2 DEF Words
    <2>1. end[1] = "1" /\ end[2] = "." /\ end[3] = "0"
      OBVIOUS
    <2>2. word = HTTP \o end
      BY <1>4
    <2> HIDE DEF word, end
    <2>3. /\ word \in Words /\ Len(word) = 8 /\ \A k \in 1 .. 5 : word[k] = HTTP[k]
          /\ word[6] = end[1] /\ word[7] = end[2] /\ word[8] = end[3]
      BY <1>3, <2>0, <2>2, Zenon
    <2> QED BY <1>5, <2>1, <2>3 DEF word
  <1>6. CASE v = "HTTP_1_1"
    <2> DEFINE word == HTTP_VERSION_STRINGS["HTTP_1_1"]
               end == <<"1", ".", "1">>
    <2>0. end \in Words /\ Len(end) = 3
      BY <1>2 DEF Words
    <2>1. end[1] = "1" /\ end[2] = "." /\ end[3] = "1"
      OBVIOUS
    <2>2. word = HTTP \o end
      BY <1>4
    <2> HIDE DEF word, end
    <2>3. /\ word \in Words /\ Len(word) = 8 /\ \A k \in 1 .. 5 : word[k] = HTTP[k]
          /\ word[6] = end[1] /\ word[7] = end[2] /\ word[8] = end[3]
      BY <1>3, <2>0, <2>2, Zenon
    <2> QED BY <1>6, <2>1, <2>3 DEF word
  <1>7. CASE v = "HTTP_2_0"
    <2> DEFINE word == HTTP_VERSION_STRINGS["HTTP_2_0"]
               end == <<"2", ".", "0">>
    <2>0. end \in Words /\ Len(end) = 3
      BY <1>2 DEF Words
    <2>1. end[1] = "2" /\ end[2] = "." /\ end[3] = "0"
      OBVIOUS
    <2>2. word = HTTP \o end
      BY <1>4
    <2> HIDE DEF word, end
    <2>3. /\ word \in Words /\ Len(word) = 8 /\ \A k \in 1 .. 5 : word[k] = HTTP[k]
          /\ word[6] = end[1] /\ word[7] = end[2] /\ word[8] = end[3]
      BY <1>3, <2>0, <2>2, Zenon
    <2> QED BY <1>7, <2>1, <2>3 DEF word
  <1> QED BY <1>1, <1>5, <1>6, <1>7

-----------------------------------------------------------------------------
(* Positions in the string.                                                *)

\* A set of positions has a first one.
LEMMA FirstPosition ==
  ASSUME NEW S, S # {}, S \subseteq Nat
  PROVE  Min(S) \in S /\ \A n \in S : Min(S) <= n
  <1> DEFINE less == {ss \in Nat \X Nat : ss[1] < ss[2]}
  <1>1. IsWellFoundedOn(less, Nat)
    BY NatLessThanWellFounded, Zenon DEF OpToRel
  <1>0. \A i, j \in Nat : <<i, j>> \in less <=> i < j
    OBVIOUS
  <1> HIDE DEF less
  <1>2. PICK x \in S : \A y \in S : ~(<<y, x>> \in less)
    BY <1>1, WFMin
  <1>3. ASSUME NEW y \in S PROVE x <= y
    <2>1. x \in Nat /\ y \in Nat
      OBVIOUS
    <2>2. ~(y < x)
      BY <1>0, <1>2, <2>1
    <2> QED BY <2>1, <2>2
  <1>4. \E z \in S : \A y \in S : z =< y
    BY <1>3
  <1>5. Min(S) = CHOOSE z \in S : \A y \in S : z =< y
    BY DEF Min
  <1> QED BY <1>4, <1>5, Zenon

LEMMA RestIs ==
  ASSUME str \in Words, NEW i \in Nat \ {0}, i <= Len(str) + 1
  PROVE  /\ Rest(i) \in Words /\ Len(Rest(i)) = Len(str) - i + 1
         /\ \A k \in 1 .. Len(str) - i + 1 : Rest(i)[k] = str[i + k - 1]
  BY SubSeqProperties DEF Rest, Words

\* What StartsWith says of the characters.
LEMMA StartsMeans ==
  ASSUME str \in Words, NEW i \in Nat \ {0}, NEW word \in Words, Len(word) > 0, StartsWith(i, word)
  PROVE  /\ i + Len(word) <= Len(str) + 1
         /\ \A k \in 1 .. Len(word) : str[i + k - 1] = word[k]
  <1>1. Len(word) <= Len(Rest(i)) /\ SubSeq(word, 1, Len(word)) = SubSeq(Rest(i), 1, Len(word))
    BY DEF StartsWith, IsPrefix
  <1>2. Len(str) \in Nat /\ Len(word) \in Nat
    BY DEF Words
  <1>3. i <= Len(str) + 1
    <2> SUFFICES ASSUME i > Len(str) + 1 PROVE FALSE
      BY <1>2
    <2>1. Rest(i) = <<>>
      BY <1>2, SubSeqProperties DEF Rest, Words
    <2> QED BY <1>1, <1>2, <2>1
  <1>4. /\ Rest(i) \in Words /\ Len(Rest(i)) = Len(str) - i + 1
        /\ \A k \in 1 .. Len(str) - i + 1 : Rest(i)[k] = str[i + k - 1]
    BY <1>3, RestIs
  <1>5. ASSUME NEW k \in 1 .. Len(word) PROVE str[i + k - 1] = word[k]
    <2>1. SubSeq(word, 1, Len(word))[k] = word[k]
      BY <1>2, SubSeqProperties DEF Words
    <2>2. SubSeq(Rest(i), 1, Len(word))[k] = Rest(i)[k]
      BY <1>1, <1>2, <1>4, SubSeqProperties DEF Words
    <2>3. k \in 1 .. Len(str) - i + 1
      BY <1>1, <1>2, <1>4
    <2> QED BY <1>1, <1>4, <2>1, <2>2, <2>3
  <1> QED BY <1>1, <1>2, <1>4, <1>5

\* And the other way round.
LEMMA MeansStarts ==
  ASSUME str \in Words, NEW i \in Nat \ {0}, NEW word \in Words, i + Len(word) <= Len(str) + 1,
         \A k \in 1 .. Len(word) : str[i + k - 1] = word[k]
  PROVE  StartsWith(i, word)
  <1>1. Len(str) \in Nat /\ Len(word) \in Nat
    BY DEF Words
  <1>2. /\ Rest(i) \in Words /\ Len(Rest(i)) = Len(str) - i + 1
        /\ \A k \in 1 .. Len(str) - i + 1 : Rest(i)[k] = str[i + k - 1]
    BY <1>1, RestIs
  <1>3. SubSeq(word, 1, Len(word)) = SubSeq(Rest(i), 1, Len(word))
    <2> DEFINE u == SubSeq(word, 1, Len(word))
               v == SubSeq(Rest(i), 1, Len(word))
    <2>1. u \in Words /\ Len(u) = Len(word) /\ \A k \in 1 .. Len(word) : u[k] = word[k]
      BY <1>1, SubSeqProperties DEF Words
    <2>2. v \in Words /\ Len(v) = Len(word) /\ \A k \in 1 .. Len(word) : v[k] = Rest(i)[k]
      BY <1>1, <1>2, SubSeqProperties DEF Words
    <2>3. ASSUME NEW k \in 1 .. Len(word) PROVE u[k] = v[k]
      <3>1. k \in 1 .. Len(str) - i + 1
        BY <1>1
      <3>2. Rest(i)[k] = str[i + k - 1]
        BY <1>2, <3>1
      <3> QED BY <2>1, <2>2, <3>2
    <2> HIDE DEF u, v
    <2>4. u = v
      BY ONLY <1>1, <2>1, <2>2, <2>3, SeqEqual DEF Words
    <2> QED BY <2>4, Zenon DEF u, v
  <1> QED BY <1>1, <1>2, <1>3 DEF StartsWith, IsPrefix

LEMMA WholeRest ==
  ASSUME str \in Words
  PROVE  Rest(1) = str
  <1>1. Len(str) \in Nat /\ Rest(1) \in Words /\ Len(Rest(1)) = Len(str)
        /\ \A k \in 1 .. Len(str) : Rest(1)[k] = str[k]
    <2>1. Len(str) \in Nat
      BY DEF Words
    <2>2. /\ Rest(1) \in Words /\ Len(Rest(1)) = Len(str) - 1 + 1
          /\ \A k \in 1 .. Len(str) - 1 + 1 : Rest(1)[k] = str[1 + k - 1]
      BY <2>1, RestIs
    <2> QED BY <2>1, <2>2
  <1> QED BY <1>1, SeqEqual DEF Words

\* Nothing that is skipped is beyond the end.
LEMMA SkipInside ==
  ASSUME str \in Words, NEW i \in Nat \ {0}, NEW word \in Words, Len(word) > 0
  PROVE  /\ Skip(i, word) \in Nat \ {0} /\ i <= Skip(i, word) /\ Skip(i, word) <= i + Len(word)
         /\ i <= Len(str) + 1 => Skip(i, word) <= Len(str) + 1
         /\ Skip(i, word) # i => Skip(i, word) = i + Len(word) /\ StartsWith(i, word)
  <1>1. Len(word) \in Nat /\ Len(str) \in Nat
    BY DEF Words
  <1>2. CASE StartsWith(i, word)
    BY <1>1, <1>2, StartsMeans DEF Skip
  <1>3. CASE ~StartsWith(i, word)
    BY <1>1, <1>3 DEF Skip
  <1> QED BY <1>2, <1>3

\* The positions of characters.
LEMMA FindIs ==
  ASSUME str \in Words, NEW i \in Nat \ {0}, NEW chars, Find(i, chars) # {}
  PROVE  /\ Min(Find(i, chars)) \in i .. Len(str) /\ str[Min(Find(i, chars))] \in chars
         /\ \A j \in i .. Min(Find(i, chars)) - 1 : str[j] \notin chars
  <1>1. Len(str) \in Nat
    BY DEF Words
  <1>2. Find(i, chars) \subseteq Nat /\ Find(i, chars) \subseteq i .. Len(str)
    BY <1>1 DEF Find
  <1>3. Min(Find(i, chars)) \in Find(i, chars) /\ \A n \in Find(i, chars) : Min(Find(i, chars)) <= n
    BY <1>2, FirstPosition
  <1>4. PICK m : m = Min(Find(i, chars))
    OBVIOUS
  <1>5. m \in i .. Len(str) /\ str[m] \in chars
    BY <1>3, <1>4 DEF Find
  <1>6. ASSUME NEW j \in i .. m - 1 PROVE str[j] \notin chars
    <2>1. j \in i .. Len(str) /\ ~(m <= j)
      BY <1>1, <1>5
    <2> QED BY <1>3, <1>4, <2>1 DEF Find
  <1> QED BY <1>4, <1>5, <1>6

-----------------------------------------------------------------------------
(* Where the parser stands.                                                *)

\* The headers and the body are what has been read; nothing here depends on them.
ShapeOf(r) ==
  r \in [method : DOMAIN Spell, path : Words, version : DOMAIN HTTP_VERSION_STRINGS,
         headers : {r.headers}, body : {r.body}]

Start == Len(Spell[request.method]) + 1
Begun == StartsWith(1, Spell[request.method])

Typed ==
  /\ str \in Words /\ Hardened \in BOOLEAN
  /\ at \in 1 .. Len(str) + 1 \/ (at = Len(str) + 2 /\ pc \in {"behind", "done"} /\ ~Hardened)
  /\ pc \in {"method", "space1", "path", "space2", "version", "end", "headers", "behind", "done"}
  /\ ShapeOf(request)
  /\ outcome \in {"none", "request", "error", "throws", "abort", "undefined"}

Stands ==
  /\ pc = "method" => at = 1
  /\ pc = "space1" => Begun /\ at = Start
  /\ pc = "path" => Begun /\ at > Start /\ \A j \in Start .. at - 1 : str[j] \in Blank
  /\ pc \in {"space2", "version", "end", "headers"} => Begun
  /\ pc = "behind" => at = Len(str) + 2 /\ str # <<>> /\ str[Len(str)] \in {CR, LF}
  /\ pc # "done" => outcome = "none"
  /\ outcome = "request" => Begun

(***************************************************************************)
(* Where the view begins depends on what has been passed over at every     *)
(* step before.                                                            *)
(***************************************************************************)
PlaceInvariant == Typed /\ Stands

\* One field of the request is set.
LEMMA Reshaped ==
  ASSUME NEW r, ShapeOf(r)
  PROVE  /\ \A m \in DOMAIN Spell : ShapeOf([r EXCEPT !.method = m]) /\ [r EXCEPT !.method = m].method = m
         /\ \A p \in Words : /\ ShapeOf([r EXCEPT !.path = p]) /\ [r EXCEPT !.path = p].path = p
                             /\ [r EXCEPT !.path = p].method = r.method
         /\ \A v \in DOMAIN HTTP_VERSION_STRINGS :
              /\ ShapeOf([r EXCEPT !.version = v])
              /\ [r EXCEPT !.version = v].method = r.method /\ [r EXCEPT !.version = v].path = r.path
         /\ \A x : /\ ShapeOf([r EXCEPT !.headers = x]) /\ [r EXCEPT !.headers = x].method = r.method
                   /\ [r EXCEPT !.headers = x].path = r.path
         /\ \A x : /\ ShapeOf([r EXCEPT !.body = x]) /\ [r EXCEPT !.body = x].method = r.method
                   /\ [r EXCEPT !.body = x].path = r.path
  <1>1. ASSUME NEW m \in DOMAIN Spell
        PROVE  ShapeOf([r EXCEPT !.method = m]) /\ [r EXCEPT !.method = m].method = m
    BY DEF ShapeOf
  <1>2. ASSUME NEW p \in Words
        PROVE  /\ ShapeOf([r EXCEPT !.path = p]) /\ [r EXCEPT !.path = p].path = p
               /\ [r EXCEPT !.path = p].method = r.method
    BY DEF ShapeOf
  <1>3. ASSUME NEW v \in DOMAIN HTTP_VERSION_STRINGS
        PROVE  /\ ShapeOf([r EXCEPT !.version = v])
               /\ [r EXCEPT !.version = v].method = r.method /\ [r EXCEPT !.version = v].path = r.path
    BY DEF ShapeOf
  <1>4. ASSUME NEW x
        PROVE  /\ ShapeOf([r EXCEPT !.headers = x]) /\ [r EXCEPT !.headers = x].method = r.method
               /\ [r EXCEPT !.headers = x].path = r.path
    BY DEF ShapeOf
  <1>5. ASSUME NEW x
        PROVE  /\ ShapeOf([r EXCEPT !.body = x]) /\ [r EXCEPT !.body = x].method = r.method
               /\ [r EXCEPT !.body = x].path = r.path
    BY DEF ShapeOf
  <1> QED BY <1>1, <1>2, <1>3, <1>4, <1>5

\* What has been parsed of the request line stays.
LEMMA BegunStays ==
  ASSUME Begun, UNCHANGED str, request'.method = request.method
  PROVE  Begun'
  BY DEF Begun, StartsWith, Rest

\* A parser that gives up.
LEMMA GivesUp ==
  ASSUME PlaceInvariant, NEW result \in {"error", "throws", "abort", "undefined"}, Finish(result), ShapeOf(request')
  PROVE  PlaceInvariant'
  BY DEF PlaceInvariant, Typed, Stands, Finish

LEMMA Fails ==
  ASSUME PlaceInvariant, NEW result \in {"error", "throws", "abort", "undefined"}, Fail(result)
  PROVE  PlaceInvariant'
  <1>1. Finish(result) /\ request' = request
    BY DEF Fail
  <1>2. ShapeOf(request')
    BY <1>1 DEF PlaceInvariant, Typed
  <1> QED BY <1>1, <1>2, GivesUp

\* A parser that goes on behind the path.
LEMMA GoesOn ==
  ASSUME PlaceInvariant, pc \in {"space2", "version", "end", "headers"}, NEW next \in {"version", "end", "headers"},
         NEW position \in 1 .. Len(str) + 1, Step(next, position), ShapeOf(request'),
         request'.method = request.method
  PROVE  PlaceInvariant'
  <1>1. Begun
    BY DEF PlaceInvariant, Stands
  <1>2. Begun'
    BY <1>1, BegunStays DEF Step
  <1>3. Typed'
    BY DEF PlaceInvariant, Typed, Step
  <1>4. Stands'
    BY <1>2 DEF PlaceInvariant, Stands, Step
  <1> QED BY <1>3, <1>4 DEF PlaceInvariant

-----------------------------------------------------------------------------
(* What is sent and what arrives.                                          *)

LEMMA WireIs ==
  ASSUME NEW r \in Sent
  PROVE  /\ Spell[r.method] \in Words /\ Len(Spell[r.method]) \in 3 .. 7
         /\ HTTP_VERSION_STRINGS[r.version] \in Words /\ Len(HTTP_VERSION_STRINGS[r.version]) = 8
         /\ r.path \in Words /\ Len(r.path) > 0 /\ \A k \in 1 .. Len(r.path) : r.path[k] \notin Blank
         /\ Wire(r) = Spell[r.method] \o <<SP>> \o r.path \o <<SP>> \o HTTP_VERSION_STRINGS[r.version]
                       \o CRLF \o HeaderLines(r) \o CRLF \o r.body
  <1>1. Spell[r.method] \in Words /\ Len(Spell[r.method]) \in 3 .. 7
    BY SentAssumption, Spelled
  <1>2. HTTP_VERSION_STRINGS[r.version] \in Words /\ Len(HTTP_VERSION_STRINGS[r.version]) = 8
    BY SentAssumption, VersionWords
  <1>3. r.path \in Words /\ Len(r.path) > 0 /\ \A k \in 1 .. Len(r.path) : r.path[k] \notin Blank
    <2>1. PICK P : P = r.path
      OBVIOUS
    <2>2. P \in Seq(Char \ Blank) /\ P # <<>>
      BY <2>1, SentAssumption
    <2>3. Len(P) \in Nat /\ Len(P) # 0 /\ P \in [1 .. Len(P) -> Char \ Blank]
      BY <2>2
    <2>4. P \in Words /\ Len(P) > 0 /\ \A k \in 1 .. Len(P) : P[k] \notin Blank
      BY <2>3 DEF Words
    <2> QED BY <2>1, <2>4
  <1>4. Wire(r) = Spell[r.method] \o <<SP>> \o r.path \o <<SP>> \o HTTP_VERSION_STRINGS[r.version]
                  \o CRLF \o HeaderLines(r) \o CRLF \o r.body
    BY Zenon DEF Wire, WireHead, RequestLine
  <1> QED BY <1>1, <1>2, <1>3, <1>4

\* W is a message with method A, path P and version V.
Laid(W, A, P, V) ==
  /\ A \in Words /\ P \in Words /\ V \in Words /\ W \in Words
  /\ Len(A) \in 3 .. 7 /\ Len(P) \in Nat \ {0} /\ Len(V) = 8 /\ Len(W) >= Len(A) + Len(P) + 12
  /\ \A k \in 1 .. Len(A) : W[k] = A[k]
  /\ W[Len(A) + 1] = SP
  /\ \A k \in 1 .. Len(P) : W[Len(A) + 1 + k] = P[k] /\ P[k] \notin Blank
  /\ W[Len(A) + 2 + Len(P)] = SP
  /\ \A k \in 1 .. 8 : W[Len(A) + 2 + Len(P) + k] = V[k]
  /\ W[Len(A) + 11 + Len(P)] = CR /\ W[Len(A) + 12 + Len(P)] = LF

LEMMA WireLaid ==
  ASSUME NEW r \in Sent
  PROVE  Laid(Wire(r), Spell[r.method], r.path, HTTP_VERSION_STRINGS[r.version])
  <1>1. PICK A, P, V, H, B :
          A = Spell[r.method] /\ P = r.path /\ V = HTTP_VERSION_STRINGS[r.version] /\ H = HeaderLines(r) /\ B = r.body
    OBVIOUS
  <1>2. /\ A \in Words /\ Len(A) \in 3 .. 7 /\ V \in Words /\ Len(V) = 8
        /\ P \in Words /\ Len(P) > 0 /\ \A k \in 1 .. Len(P) : P[k] \notin Blank
    BY <1>1, WireIs
  <1>3. H \in Words /\ B \in Words
    BY <1>1, SentAssumption DEF Words
  <1>4. CRLF \in Words /\ <<SP>> \in Words
    BY Characters
  <1>5. PICK s1 : s1 = A \o <<SP>>
    OBVIOUS
  <1>6. PICK s2 : s2 = s1 \o P
    OBVIOUS
  <1>7. PICK s3 : s3 = s2 \o <<SP>>
    OBVIOUS
  <1>8. PICK s4 : s4 = s3 \o V
    OBVIOUS
  <1>9. PICK s5 : s5 = s4 \o CRLF
    OBVIOUS
  <1>10. PICK s6 : s6 = s5 \o H
    OBVIOUS
  <1>11. PICK s7 : s7 = s6 \o CRLF
    OBVIOUS
  <1>12. PICK W : W = s7 \o B
    OBVIOUS
  <1>13. Wire(r) = W
    BY <1>1, <1>5, <1>6, <1>7, <1>8, <1>9, <1>10, <1>11, <1>12, WireIs, Zenon
  <1>14. Joined(s1, A, <<SP>>) /\ s1 \in Words
    BY <1>2, <1>4, <1>5, Glued, Zenon
  <1>15. Joined(s2, s1, P) /\ s2 \in Words
    BY <1>2, <1>6, <1>14, Glued, Zenon
  <1>16. Joined(s3, s2, <<SP>>) /\ s3 \in Words
    BY <1>4, <1>7, <1>15, Glued, Zenon
  <1>17. Joined(s4, s3, V) /\ s4 \in Words
    BY <1>2, <1>8, <1>16, Glued, Zenon
  <1>18. Joined(s5, s4, CRLF) /\ s5 \in Words
    BY <1>4, <1>9, <1>17, Glued, Zenon
  <1>19. Joined(s6, s5, H) /\ s6 \in Words
    BY <1>3, <1>10, <1>18, Glued, Zenon
  <1>20. Joined(s7, s6, CRLF) /\ s7 \in Words
    BY <1>4, <1>11, <1>19, Glued, Zenon
  <1>21. Joined(W, s7, B)
    BY <1>3, <1>12, <1>20, Glued, Zenon
  <1>22. PICK a \in Nat : a = Len(A)
    BY <1>2
  <1>23. PICK l \in Nat : l = Len(P)
    BY <1>2 DEF Words
  <1>24. PICK e \in Nat : e = a + 2 + l
    OBVIOUS
  <1>25. Len(A) = a /\ Len(P) = l /\ Len(V) = 8 /\ e = a + 2 + l
    BY <1>2, <1>22, <1>23, <1>24
  <1>31. CRLF \in Words /\ <<SP>> \in Words /\ Len(<<SP>>) = 1 /\ <<SP>>[1] = SP
         /\ Len(CRLF) = 2 /\ CRLF[1] = CR /\ CRLF[2] = LF
    BY Characters
  <1>32. s1 \in Words /\ Len(s1) = a + 1 /\ (\A k \in 1 .. a : s1[k] = A[k]) /\ s1[a + 1] = SP
    <2>2. s1[a + 1] = <<SP>>[1]
      BY <1>25, <1>14, <1>31 DEF Joined
    <2> QED BY <1>25, <1>14, <1>31, <2>2 DEF Joined
  <1>33. /\ s2 \in Words /\ Len(s2) = a + 1 + l /\ (\A k \in 1 .. a + 1 : s2[k] = s1[k])
         /\ \A k \in 1 .. l : s2[a + 1 + k] = P[k]
    BY <1>25, <1>15, <1>32 DEF Joined
  <1>34. /\ s3 \in Words /\ Len(s3) = e /\ (\A k \in 1 .. e - 1 : s3[k] = s2[k]) /\ s3[e] = SP
    <2>2. s3[e - 1 + 1] = <<SP>>[1]
      BY <1>25, <1>16, <1>31, <1>33 DEF Joined
    <2>3. s3[e] = SP
      BY <1>25, <1>16, <1>31, <2>2
    <2> QED BY <1>25, <1>16, <1>31, <1>33, <2>3 DEF Joined
  <1>35. /\ s4 \in Words /\ Len(s4) = e + 8 /\ (\A k \in 1 .. e : s4[k] = s3[k])
         /\ \A k \in 1 .. 8 : s4[e + k] = V[k]
    BY <1>25, <1>17, <1>34 DEF Joined
  <1>36. /\ s5 \in Words /\ Len(s5) = e + 10 /\ (\A k \in 1 .. e + 8 : s5[k] = s4[k])
         /\ s5[e + 9] = CR /\ s5[e + 10] = LF
    <2>2. s5[e + 8 + 1] = CRLF[1] /\ s5[e + 8 + 2] = CRLF[2]
      BY <1>25, <1>18, <1>31, <1>35 DEF Joined
    <2>3. s5[e + 9] = CR /\ s5[e + 10] = LF
      BY <1>25, <1>18, <1>31, <2>2
    <2> QED BY <1>25, <1>18, <1>31, <1>35, <2>3 DEF Joined
  <1>37. s6 \in Words /\ Len(s6) >= e + 10 /\ \A k \in 1 .. e + 10 : s6[k] = s5[k]
    <2>1. Len(s5) >= e + 10 /\ e + 10 \in Nat
      BY <1>25, <1>19, <1>36
    <2> QED BY <1>25, <1>19, <2>1, JoinedKeeps
  <1>38. s7 \in Words /\ Len(s7) >= e + 10 /\ \A k \in 1 .. e + 10 : s7[k] = s6[k]
    <2>1. e + 10 \in Nat
      BY <1>25, <1>20
    <2> QED BY <1>25, <1>20, <1>37, <2>1, JoinedKeeps
  <1>39. W \in Words /\ Len(W) >= e + 10 /\ \A k \in 1 .. e + 10 : W[k] = s7[k]
    <2>1. e + 10 \in Nat
      BY <1>25, <1>21
    <2> QED BY <1>25, <1>21, <1>38, <2>1, JoinedKeeps
  <1>40. \A k \in 1 .. e + 10 : W[k] = s5[k]
    BY <1>25, <1>37, <1>38, <1>39
  <1>41. ASSUME NEW k \in 1 .. e PROVE W[k] = s3[k]
    <2>1. e \in Nat
      OBVIOUS
    <2>2. k \in 1 .. e + 8 /\ k \in 1 .. e + 10
      BY ONLY <2>1, k \in 1 .. e
    <2>3. W[k] = s5[k] /\ s5[k] = s4[k] /\ s4[k] = s3[k]
      BY <1>35, <1>36, <1>40, <2>2, Zenon
    <2> QED BY ONLY <2>3
  <1>42. \A k \in 1 .. e - 1 : W[k] = s2[k]
    BY <1>25, <1>34, <1>41
  <1>43. \A k \in 1 .. a + 1 : W[k] = s1[k]
    BY <1>25, <1>33, <1>42
  <1>44. \A k \in 1 .. a : W[k] = A[k]
    BY <1>25, <1>32, <1>43
  <1>45. W[a + 1] = SP /\ W[e] = SP /\ W[e + 9] = CR /\ W[e + 10] = LF
    BY <1>25, <1>32, <1>34, <1>36, <1>40, <1>41, <1>43
  <1>46. ASSUME NEW k \in 1 .. l PROVE W[a + 1 + k] = P[k]
    <2>1. a + 1 + k \in 1 .. e - 1
      BY <1>25
    <2> QED BY <1>25, <1>33, <1>42, <2>1
  <1>47. ASSUME NEW k \in 1 .. 8 PROVE W[e + k] = V[k]
    <2>1. e + k \in 1 .. e + 8 /\ e + k \in 1 .. e + 10
      BY <1>25
    <2> QED BY <1>25, <1>35, <1>36, <1>40, <2>1
  <1>49. l \in Nat \ {0} /\ a \in 3 .. 7
    BY <1>2, <1>22, <1>23
  <1>50. e + 9 = a + 11 + l /\ e + 10 = a + 12 + l /\ e + 10 = a + l + 12 /\ l \in Nat \ {0} /\ a \in 3 .. 7
    BY ONLY <1>24, <1>49, a \in Nat, l \in Nat
  <1>51. Laid(W, A, P, V)
    BY <1>2, <1>25, <1>39, <1>44, <1>45, <1>46, <1>47, <1>50, Zenon DEF Laid
  <1> QED BY <1>1, <1>13, <1>51, Zenon

\* What arrives is what was sent, cut off or with one character changed.
Cut == Len(str) <= Len(Wire(sent)) /\ \A n \in 1 .. Len(str) : str[n] = Wire(sent)[n]
DamagedAt(d) == Len(str) = Len(Wire(sent)) /\ \A n \in 1 .. Len(str) : n # d => str[n] = Wire(sent)[n]
Delivered == sent \in Sent /\ (Cut \/ \E d \in 1 .. Len(str) : DamagedAt(d))

LEMMA InitDelivered ==
  ASSUME Init
  PROVE  str \in Words /\ Delivered
  <1>1. sent \in Sent
    BY DEF Init
  <1>2. PICK W : W = Wire(sent)
    OBVIOUS
  <1>3. W \in Words /\ Len(W) \in Nat
    <2>1. W \in Words
      BY <1>1, <1>2, WireLaid DEF Laid
    <2> QED BY <2>1 DEF Words
  <1>4. CASE str = W
    BY <1>1, <1>2, <1>3, <1>4 DEF Delivered, Cut
  <1>5. ASSUME NEW n \in 0 .. Len(W) - 1, str = SubSeq(W, 1, n) PROVE str \in Words /\ Delivered
    <2>1. PICK s : s = SubSeq(W, 1, n)
      OBVIOUS
    <2>2. s \in Words /\ Len(s) = n /\ \A k \in 1 .. n : s[k] = W[k]
      BY <1>3, <2>1, SubSeqProperties DEF Words
    <2>3. str = s
      BY <1>5, <2>1
    <2> QED BY <1>1, <1>2, <1>3, <2>2, <2>3 DEF Delivered, Cut
  <1>6. ASSUME NEW n \in 1 .. Len(W), NEW c \in Damage, str = ReplaceAt(W, n, c) PROVE str \in Words /\ Delivered
    <2>1. PICK s : s = [W EXCEPT ![n] = c]
      OBVIOUS
    <2>2. c \in Char
      BY SentAssumption
    <2>3. s \in Words /\ Len(s) = Len(W) /\ \A k \in 1 .. Len(W) : k # n => s[k] = W[k]
      BY <1>3, <2>1, <2>2 DEF Words
    <2>4. str = s
      BY <1>6, <2>1 DEF ReplaceAt
    <2>5. DamagedAt(n)
      BY <1>2, <2>3, <2>4 DEF DamagedAt
    <2> QED BY <1>1, <1>3, <2>3, <2>4, <2>5 DEF Delivered
  <1> QED BY <1>2, <1>4, <1>5, <1>6 DEF Init

-----------------------------------------------------------------------------
(* Every step keeps the parser where it may be.                            *)

LEMMA InitPlaced ==
  ASSUME Init
  PROVE  PlaceInvariant
  <1>1. str \in Words /\ at = 1 /\ pc = "method" /\ outcome = "none" /\ Hardened \in BOOLEAN
    BY InitDelivered, ParserAssumption DEF Init
  <1>2. at \in 1 .. Len(str) + 1
    BY <1>1 DEF Words
  <1>3. ShapeOf(request)
    <2>1. request = NoRequest
      BY DEF Init
    <2>2. "GET" \in DOMAIN Spell
      BY DEF Spell
    <2>3. "HTTP_1_0" \in DOMAIN HTTP_VERSION_STRINGS
      BY DEF HTTP_VERSION_STRINGS
    <2>4. <<>> \in Words
      BY DEF Words
    <2>5. NoRequest \in [method : DOMAIN Spell, path : Words, version : DOMAIN HTTP_VERSION_STRINGS,
                         headers : {NoHeaders}, body : {<<>>}]
      BY <2>2, <2>3, <2>4 DEF NoRequest
    <2>6. NoRequest.headers = NoHeaders /\ NoRequest.body = <<>>
      BY DEF NoRequest
    <2> QED BY <2>1, <2>5, <2>6 DEF ShapeOf
  <1> QED BY <1>1, <1>2, <1>3 DEF PlaceInvariant, Typed, Stands

LEMMA MethodPlaced ==
  ASSUME PlaceInvariant, method_string_to_enum
  PROVE  PlaceInvariant'
  <1>1. Typed /\ pc = "method" /\ at = 1
    BY DEF PlaceInvariant, Stands, method_string_to_enum
  <1>2. ASSUME NEW m \in DOMAIN Spell, StartsWith(at, Spell[m]), Step("space1", at + Len(Spell[m])),
               request' = [request EXCEPT !.method = m]
        PROVE  PlaceInvariant'
    <2>1. Spell[m] \in Words /\ Len(Spell[m]) \in 3 .. 7
      BY Spelled
    <2>2. at + Len(Spell[m]) <= Len(str) + 1
      <3>1. str \in Words
        BY <1>1 DEF Typed
      <3>2. PICK word \in Words : word = Spell[m] /\ Len(word) \in 3 .. 7
        BY <2>1, Zenon
      <3>3. Len(word) > 0 /\ at \in Nat \ {0}
        <4>1. PICK l \in 3 .. 7 : l = Len(word)
          BY <3>2, Zenon
        <4>2. l > 0
          OBVIOUS
        <4>3. Len(word) > 0
          BY <4>1, <4>2, Zenon
        <4>4. at \in Nat \ {0}
          BY <1>1
        <4> QED BY <4>3, <4>4
      <3>5. StartsWith(at, word)
        BY <1>2, <3>2, Zenon
      <3>4. at + Len(word) <= Len(str) + 1
        BY <3>1, <3>3, <3>5, StartsMeans
      <3> QED BY <3>2, <3>4, Zenon
    <2>3. ShapeOf(request') /\ request'.method = m
      <3>1. ShapeOf(request)
        BY <1>1 DEF Typed
      <3>2. ShapeOf([request EXCEPT !.method = m]) /\ [request EXCEPT !.method = m].method = m
        BY <3>1, Reshaped
      <3> QED BY <1>2, <3>2
    <2>4. Begun'
      BY <1>1, <1>2, <2>3 DEF Begun, Step, StartsWith, Rest
    <2>5. at' = 1 + Len(Spell[m]) /\ at' = Start'
      BY <1>1, <1>2, <2>1, <2>3 DEF Step, Start
    <2>6. Typed'
      BY <1>1, <1>2, <2>1, <2>2, <2>3, <2>5 DEF Typed, Step, Words
    <2>7. outcome' = "none"
      BY <1>1, <1>2 DEF PlaceInvariant, Stands, Step
    <2>8. Stands'
      BY <1>2, <2>4, <2>5, <2>7 DEF Stands, Step
    <2> QED BY <2>6, <2>8 DEF PlaceInvariant
  <1>3. ASSUME NEW result, Fail(result), result \in {"throws", "error", "abort"} PROVE PlaceInvariant'
    BY <1>3, Fails
  <1> QED BY <1>2, <1>3 DEF method_string_to_enum, Unchecked

\* A run of blanks ends with the string or at something else.
Behind(i) == Min({n \in i .. Len(str) + 1 : AtEnd(n) \/ str[n] \notin Blank})
LEMMA BlanksEnd ==
  ASSUME str \in Words, NEW i \in 1 .. Len(str), str[i] \in Blank, NEW j, j = Behind(i)
  PROVE  /\ j \in i + 1 .. Len(str) + 1
         /\ \A n \in i .. j - 1 : str[n] \in Blank
         /\ AtEnd(j) \/ str[j] \notin Blank
  <1> DEFINE S == {n \in i .. Len(str) + 1 : AtEnd(n) \/ str[n] \notin Blank}
  <1>1. Len(str) \in Nat
    BY DEF Words
  <1>2. Len(str) + 1 \in S /\ S \subseteq Nat
    BY <1>1 DEF AtEnd
  <1>3. j \in S /\ \A n \in S : j <= n
    <2> HIDE DEF S
    <2>1. Min(S) \in S /\ \A n \in S : Min(S) <= n
      BY <1>2, FirstPosition
    <2>2. j = Min(S)
      BY DEF S, Behind
    <2> QED BY <2>1, <2>2
  <1>4. i \notin S
    BY <1>1 DEF AtEnd
  <1>5. ASSUME NEW n \in i .. j - 1 PROVE str[n] \in Blank
    <2>1. n \in i .. Len(str) + 1 /\ ~(j <= n)
      BY <1>1, <1>3
    <2> QED BY <1>3, <2>1
  <1> QED BY <1>1, <1>3, <1>4, <1>5

LEMMA Space1Placed ==
  ASSUME PlaceInvariant, expect_two("space1", "path")
  PROVE  PlaceInvariant'
  <1>1. Typed /\ pc = "space1" /\ at = Start /\ Begun /\ request' = request /\ outcome = "none"
    BY DEF PlaceInvariant, Stands, expect_two
  <1>2. str \in Words /\ Len(str) \in Nat /\ at \in 1 .. Len(str) + 1 /\ ShapeOf(request)
    BY <1>1 DEF Typed, Words
  <1>3. ASSUME ~AtEnd(at), str[at] \in Blank,
               Step("path", Min({n \in at .. Len(str) + 1 : AtEnd(n) \/ str[n] \notin Blank}))
        PROVE  PlaceInvariant'
    <2>1. at \in 1 .. Len(str)
      BY <1>2, <1>3 DEF AtEnd
    <2>2. at' = Behind(at)
      BY <1>3 DEF Step, Behind
    <2>3. at' \in at + 1 .. Len(str) + 1 /\ \A n \in at .. at' - 1 : str[n] \in Blank
      BY <1>2, <1>3, <2>1, <2>2, BlanksEnd
    <2>4. str' = str /\ pc' = "path" /\ outcome' = "none" /\ Hardened' = Hardened
      BY <1>1, <1>3 DEF Step
    <2>5. Typed'
      BY <1>1, <1>2, <2>3, <2>4 DEF Typed
    <2>6. Begun' /\ Start' = at
      BY <1>1, <2>4 DEF Begun, Start, StartsWith, Rest
    <2>7. at' > Start' /\ \A n \in Start' .. at' - 1 : str'[n] \in Blank
      <3>1. at' > at
        BY <1>2, <2>3
      <3> QED BY <2>3, <2>4, <2>6, <3>1, Zenon
    <2> QED BY <2>4, <2>5, <2>6, <2>7 DEF PlaceInvariant, Stands
  <1>4. ASSUME NEW result \in {"error", "abort"}, Finish(result) PROVE PlaceInvariant'
    BY <1>1, <1>2, <1>4, GivesUp
  <1> QED BY <1>3, <1>4 DEF expect_two, Unchecked

LEMMA PathPlaced ==
  ASSUME PlaceInvariant, next_token
  PROVE  PlaceInvariant'
  <1>1. /\ Typed /\ pc = "path" /\ Begun /\ at > Start /\ outcome = "none"
        /\ \A j \in Start .. at - 1 : str[j] \in Blank
    BY DEF PlaceInvariant, Stands, next_token
  <1>2. str \in Words /\ Len(str) \in Nat /\ at \in 1 .. Len(str) + 1 /\ ShapeOf(request)
    BY <1>1 DEF Typed, Words
  <1>3. Start \in 4 .. 8 /\ Start \in Nat
    <2>1. PICK m : m = request.method
      OBVIOUS
    <2>2. m \in DOMAIN Spell
      BY <1>2, <2>1 DEF ShapeOf
    <2>3. Len(Spell[m]) + 1 \in 4 .. 8
      <3>1. Len(Spell[m]) \in 3 .. 7
        BY <2>2, Spelled, Zenon
      <3>2. PICK l \in 3 .. 7 : l = Len(Spell[m])
        BY <3>1, Zenon
      <3>3. l + 1 \in 4 .. 8
        OBVIOUS
      <3> QED BY <3>2, <3>3, Zenon
    <2>4. Start \in 4 .. 8
      BY <2>1, <2>3, Zenon DEF Start
    <2> QED BY <2>4
  <1>4. ASSUME NEW path \in Words, request' = [request EXCEPT !.path = path],
               Step("space2", at'), at' \in 1 .. Len(str) + 1
        PROVE  PlaceInvariant'
    <2>1. ShapeOf(request') /\ request'.path = path /\ request'.method = request.method
      BY <1>2, <1>4, Reshaped, Zenon
    <2>2. str' = str /\ pc' = "space2" /\ outcome' = "none" /\ Hardened' = Hardened
      BY <1>1, <1>4 DEF Step
    <2>3. Typed'
      BY <1>1, <1>2, <1>4, <2>1, <2>2 DEF Typed
    <2>4. Begun'
      BY <1>1, <2>1, <2>2, BegunStays
    <2> QED BY <2>2, <2>3, <2>4 DEF PlaceInvariant, Stands
  <1>5. ASSUME NEW e \in at .. Len(str) + 1, NEW path, path = SubSeq(str, at, e - 1)
        PROVE  path \in Words
    BY <1>2, <1>5, SubSeqProperties DEF Words
  <1>6. CASE Find(at, {SP}) # {} /\ Step("space2", Min(Find(at, {SP}))) /\ request' = [request EXCEPT !.path = SubSeq(str, at, at' - 1)]
    <2>1. at' \in at .. Len(str)
      <3>1. at \in Nat \ {0}
        BY <1>2
      <3>2. Min(Find(at, {SP})) \in at .. Len(str)
        BY <1>2, <1>6, <3>1, FindIs
      <3> QED BY <1>6, <3>2 DEF Step
    <2>2. Step("space2", at')
      BY <1>6 DEF Step
    <2>3. at' \in at .. Len(str) + 1
      BY <1>2, <2>1
    <2>4. PICK path : path = SubSeq(str, at, at' - 1)
      OBVIOUS
    <2>5. PICK e : e = at'
      OBVIOUS
    <2>6. path \in Words
      <3>1. e \in at .. Len(str) + 1 /\ path = SubSeq(str, at, e - 1)
        BY <2>3, <2>4, <2>5
      <3> QED BY <1>5, <3>1
    <2>7. request' = [request EXCEPT !.path = path] /\ at' \in 1 .. Len(str) + 1
      BY <1>2, <1>6, <2>3, <2>4
    <2> QED BY <1>4, <2>2, <2>6, <2>7
  <1>7. CASE Step("space2", at - 1) /\ request' = [request EXCEPT !.path = Rest(at)]
    <2>1. at' = at - 1 /\ at' \in 1 .. Len(str) + 1
      BY <1>1, <1>2, <1>3, <1>7 DEF Step
    <2>2. Step("space2", at')
      BY <1>7 DEF Step
    <2>3. PICK path : path = Rest(at)
      OBVIOUS
    <2>4. path \in Words
      <3>1. at \in Nat \ {0} /\ at <= Len(str) + 1
        BY <1>2
      <3> QED BY <1>2, <2>3, <3>1, RestIs
    <2> QED BY <1>4, <1>7, <2>1, <2>2, <2>3, <2>4
  <1>8. CASE Fail("abort")
    BY <1>8, Fails
  <1> QED BY <1>6, <1>7, <1>8 DEF next_token


LEMMA Space2Placed ==
  ASSUME PlaceInvariant, expect_two("space2", "version")
  PROVE  PlaceInvariant'
  <1>1. Typed /\ pc = "space2" /\ request' = request
    BY DEF PlaceInvariant, expect_two
  <1>2. str \in Words /\ Len(str) \in Nat /\ at \in 1 .. Len(str) + 1 /\ ShapeOf(request)
    BY <1>1 DEF Typed, Words
  <1>3. ASSUME ~AtEnd(at), str[at] \in Blank,
               Step("version", Min({n \in at .. Len(str) + 1 : AtEnd(n) \/ str[n] \notin Blank}))
        PROVE  PlaceInvariant'
    <2>1. at \in 1 .. Len(str)
      BY <1>2, <1>3 DEF AtEnd
    <2>2. PICK j : j = Behind(at)
      OBVIOUS
    <2>3. Step("version", j)
      BY <1>3, <2>2 DEF Behind
    <2>4. j \in at + 1 .. Len(str) + 1
      BY <1>2, <1>3, <2>1, <2>2, BlanksEnd
    <2>5. j \in 1 .. Len(str) + 1
      BY <1>2, <2>4
    <2> QED BY <1>1, <1>2, <2>3, <2>5, GoesOn
  <1>4. ASSUME NEW result \in {"error", "abort"}, Finish(result) PROVE PlaceInvariant'
    BY <1>1, <1>2, <1>4, GivesUp
  <1> QED BY <1>3, <1>4 DEF expect_two, Unchecked

\* The words the version is made of.
LEMMA VersionMarks ==
  /\ <<"1", ".">> \in Words /\ Len(<<"1", ".">>) = 2 /\ <<".", "0">> \in Words /\ Len(<<".", "0">>) = 2
  /\ <<"0">> \in Words /\ Len(<<"0">>) = 1 /\ <<"1">> \in Words /\ Len(<<"1">>) = 1
  /\ <<"2">> \in Words /\ Len(<<"2">>) = 1
  <1>1. {"0", "1", "2", "."} \subseteq Char
    BY SentAssumption DEF Letters
  <1> QED BY <1>1 DEF Words

\* One character is there to be passed over.
LEMMA OneMore ==
  ASSUME str \in Words, NEW i \in Nat \ {0}, ~AtEnd(i)
  PROVE  i + 1 \in 1 .. Len(str) + 1
  BY DEF AtEnd, Words

LEMMA OneRead ==
  ASSUME str \in Words, NEW i \in Nat \ {0}, NEW word \in Words, Len(word) = 1, StartsWith(i, word)
  PROVE  i + 1 \in 1 .. Len(str) + 1 /\ ~AtEnd(i)
  <1>1. Len(word) > 0 /\ Len(str) \in Nat
    BY DEF Words
  <1>2. i + Len(word) <= Len(str) + 1
    BY <1>1, StartsMeans
  <1> QED BY <1>1, <1>2 DEF AtEnd

LEMMA SkipIn ==
  ASSUME str \in Words, NEW i \in 1 .. Len(str) + 1, NEW word \in Words, Len(word) > 0
  PROVE  Skip(i, word) \in 1 .. Len(str) + 1 /\ Skip(i, word) >= i
  <1>1. i \in Nat \ {0} /\ i <= Len(str) + 1 /\ Len(str) \in Nat
    BY DEF Words
  <1>2. Skip(i, word) \in Nat \ {0} /\ i <= Skip(i, word) /\ Skip(i, word) <= Len(str) + 1
    BY <1>1, SkipInside
  <1> QED BY <1>1, <1>2


LEMMA VersionPlaced ==
  ASSUME PlaceInvariant, version_string_to_enum
  PROVE  PlaceInvariant'
  <1>1. Typed /\ pc = "version"
    BY DEF PlaceInvariant, version_string_to_enum
  <1>2. str \in Words /\ Len(str) \in Nat /\ at \in 1 .. Len(str) + 1 /\ ShapeOf(request)
    BY <1>1 DEF Typed, Words
  <1>3. PICK major : major = Skip(at, HTTP)
    OBVIOUS
  <1>4. PICK minor : minor = Skip(major + 1, <<"1", ".">>)
    OBVIOUS
  <1>5. major \in 1 .. Len(str) + 1
    <2>1. Len(HTTP) > 0 /\ HTTP \in Words
      BY HTTPWord
    <2> QED BY <1>2, <1>3, <2>1, SkipIn
  <1>6. minor \in Nat \ {0}
    <2>1. major + 1 \in Nat \ {0}
      BY <1>2, <1>5
    <2>2. Skip(major + 1, <<"1", ".">>) \in Nat \ {0}
      <3>1. PICK word \in Words : word = <<"1", ".">> /\ Len(word) > 0
        BY VersionMarks
      <3>2. Skip(major + 1, word) \in Nat \ {0}
        BY <1>2, <2>1, <3>1, SkipInside
      <3> QED BY <3>1, <3>2, Zenon
    <2> QED BY <1>4, <2>2
  <1>7. ASSUME NEW v \in DOMAIN HTTP_VERSION_STRINGS, request' = [request EXCEPT !.version = v],
               NEW position \in 1 .. Len(str) + 1, Step("end", position)
        PROVE  PlaceInvariant'
    <2>1. /\ ShapeOf([request EXCEPT !.version = v])
          /\ [request EXCEPT !.version = v].method = request.method /\ [request EXCEPT !.version = v].path = request.path
      BY <1>2, Reshaped
    <2>2. ShapeOf(request') /\ request'.method = request.method /\ request'.path = request.path
      BY <1>7, <2>1
    <2> QED BY <1>1, <1>7, <2>2, GoesOn
  <1>8. {"HTTP_1_0", "HTTP_1_1", "HTTP_2_0"} = DOMAIN HTTP_VERSION_STRINGS
    BY DEF HTTP_VERSION_STRINGS
  <1>9. CASE /\ StartsWith(major, <<"2">>) /\ Step("end", Skip(major + 1, <<".", "0">>))
             /\ request' = [request EXCEPT !.version = "HTTP_2_0"]
    <2>1. PICK two \in Words : two = <<"2">> /\ Len(two) = 1
      BY VersionMarks
    <2>2. StartsWith(major, two) /\ major \in Nat \ {0}
      BY <1>5, <1>9, <2>1
    <2>3. major + 1 \in 1 .. Len(str) + 1
      BY <1>2, <2>1, <2>2, OneRead
    <2>4. PICK word \in Words : word = <<".", "0">> /\ Len(word) > 0
      BY VersionMarks
    <2>5. Skip(major + 1, word) \in 1 .. Len(str) + 1
      BY <1>2, <2>3, <2>4, SkipIn
    <2>6. Step("end", Skip(major + 1, word))
      BY <1>9, <2>4, Zenon
    <2> QED BY <1>7, <1>8, <1>9, <2>5, <2>6
  <1>10. CASE StartsWith(minor, <<"0">>) /\ Step("end", minor + 1) /\ request' = [request EXCEPT !.version = "HTTP_1_0"]
    <2>1. PICK zero \in Words : zero = <<"0">> /\ Len(zero) = 1
      BY VersionMarks
    <2>2. StartsWith(minor, zero)
      BY <1>10, <2>1
    <2>3. minor + 1 \in 1 .. Len(str) + 1
      BY <1>2, <1>6, <2>1, <2>2, OneRead
    <2> QED BY <1>7, <1>8, <1>10, <2>3
  <1>11. CASE /\ ~AtEnd(minor) /\ Step("end", Skip(minor + 1, <<"1">>))
              /\ request' = [request EXCEPT !.version = "HTTP_1_1"]
    <2>1. minor + 1 \in 1 .. Len(str) + 1
      BY <1>2, <1>6, <1>11, OneMore
    <2>2. PICK word \in Words : word = <<"1">> /\ Len(word) > 0
      BY VersionMarks
    <2>3. Skip(minor + 1, word) \in 1 .. Len(str) + 1
      BY <1>2, <2>1, <2>2, SkipIn
    <2>4. Step("end", Skip(minor + 1, word))
      BY <1>11, <2>2, Zenon
    <2> QED BY <1>7, <1>8, <1>11, <2>3, <2>4
  <1>12. CASE Fail("throws")
    BY <1>12, Fails
  <1> QED BY <1>3, <1>4, <1>9, <1>10, <1>11, <1>12 DEF version_string_to_enum

LEMMA EndPlaced ==
  ASSUME PlaceInvariant, expect_end
  PROVE  PlaceInvariant'
  <1>1. Typed /\ pc = "end" /\ request' = request
    BY DEF PlaceInvariant, expect_end
  <1>2. str \in Words /\ Len(str) \in Nat /\ at \in 1 .. Len(str) + 1 /\ ShapeOf(request)
    BY <1>1 DEF Typed, Words
  <1>3. CASE StartsWith(at, CRLF) /\ Step("headers", at + 2)
    <2>1. CRLF \in Words /\ Len(CRLF) = 2 /\ at \in Nat \ {0}
      BY <1>2, Characters
    <2>2. at + Len(CRLF) <= Len(str) + 1
      <3>1. Len(CRLF) > 0
        BY <2>1
      <3> QED BY <1>2, <1>3, <2>1, <3>1, StartsMeans
    <2>3. at + 2 \in 1 .. Len(str) + 1
      BY <1>2, <2>1, <2>2
    <2> QED BY <1>1, <1>2, <1>3, <2>3, GoesOn
  <1>4. CASE Finish("error")
    BY <1>1, <1>2, <1>4, GivesUp
  <1> QED BY <1>3, <1>4 DEF expect_end

LEMMA HeaderPlaced ==
  ASSUME PlaceInvariant, parse_header
  PROVE  PlaceInvariant'
  <1>1. Typed /\ pc = "headers" /\ Find(at, {CR, LF}) # {}
    BY DEF PlaceInvariant, parse_header
  <1>2. str \in Words /\ Len(str) \in Nat /\ at \in 1 .. Len(str) + 1 /\ ShapeOf(request)
    BY <1>1 DEF Typed, Words
  <1>3. HeaderEnd \in 1 .. Len(str)
    <2>1. at \in Nat \ {0}
      BY <1>2
    <2>2. HeaderEnd \in at .. Len(str)
      BY <1>1, <1>2, <2>1, FindIs DEF HeaderEnd
    <2> QED BY <1>2, <2>2
  <1>4. ShapeOf(request') /\ request'.method = request.method
    <2>1. PICK x : request' = [request EXCEPT !.headers = x]
      BY Zenon DEF parse_header, SetHeader
    <2>2. ShapeOf([request EXCEPT !.headers = x]) /\ [request EXCEPT !.headers = x].method = request.method
      BY <1>2, Reshaped
    <2> QED BY <2>1, <2>2
  <1>5. CASE HeaderEnd < Len(str) /\ Step("headers", HeaderEnd + 2)
    <2>1. Step("headers", HeaderEnd + 2)
      BY <1>5
    <2>2. HeaderEnd + 2 \in 1 .. Len(str) + 1
      BY <1>2, <1>3, <1>5
    <2> QED BY <1>1, <1>4, <2>1, <2>2, GoesOn
  <1>6. CASE HeaderEnd = Len(str) /\ ~Hardened /\ Step("behind", HeaderEnd + 2)
    <2>1. /\ at' = Len(str) + 2 /\ pc' = "behind" /\ str' = str /\ Hardened' = Hardened
          /\ outcome' = "none"
      BY <1>1, <1>6 DEF Step, PlaceInvariant, Stands
    <2>2. str # <<>> /\ str[Len(str)] \in {CR, LF}
      <3>1. at \in Nat \ {0}
        BY <1>2
      <3>2. HeaderEnd \in at .. Len(str) /\ str[HeaderEnd] \in {CR, LF}
        BY <1>1, <1>2, <3>1, FindIs DEF HeaderEnd
      <3>3. Len(str) # 0
        BY <1>2, <1>3
      <3> QED BY <1>6, <3>2, <3>3
    <2>3. Typed'
      BY <1>1, <1>4, <1>6, <2>1 DEF Typed
    <2> QED BY <2>1, <2>2, <2>3 DEF PlaceInvariant, Stands
  <1>7. CASE Finish("abort")
    BY <1>4, <1>7, GivesUp
  <1> QED BY <1>5, <1>6, <1>7 DEF parse_header

\* What has been found behind the string is never taken: it is longer than std::string allows.
LEMMA TooLong ==
  ASSUME PlaceInvariant, pc = "behind", NEW n \in Reach
  PROVE  Length(at + n + 2) > max_size
  <1>1. at = Len(str) + 2 /\ Len(str) \in Nat
    BY DEF PlaceInvariant, Stands, Typed, Words
  <1>2. SizeT \in Nat /\ n \in 0 .. SizeT \div 2 - 3
    BY ParserAssumption
  <1>3. PICK i : i = at + n + 2
    OBVIOUS
  <1>4. Length(at + n + 2) = SizeT - (n + 3)
    <2>1. AtEnd(i - 1) /\ i - 1 - Len(str) = n + 3
      BY <1>1, <1>2, <1>3 DEF AtEnd
    <2>2. Length(i) = SizeT - (n + 3)
      BY <2>1, Zenon DEF Length
    <2> QED BY <1>3, <2>2
  <1> QED BY <1>2, <1>4 DEF max_size

LEMMA BehindFails ==
  ASSUME PlaceInvariant, ReadsOn
  PROVE  \E result \in {"error", "throws", "undefined"} : Fail(result)
  <1>1. \A n \in Reach : (IF Length(at + n + 2) > max_size THEN "throws" ELSE "request") = "throws"
    BY TooLong DEF ReadsOn
  <1>2. CASE Finish("error")
    BY <1>2 DEF ReadsOn, Fail
  <1>3. CASE Finish("undefined")
    BY <1>3 DEF ReadsOn, Fail
  <1>4. CASE \E n \in Reach : Finish(IF Length(at + n + 2) > max_size THEN "throws" ELSE "request")
    <2>1. Finish("throws")
      BY <1>1, <1>4
    <2> QED BY <2>1 DEF ReadsOn, Fail
  <1> QED BY <1>2, <1>3, <1>4 DEF ReadsOn

LEMMA BehindPlaced ==
  ASSUME PlaceInvariant, ReadsOn
  PROVE  PlaceInvariant'
  BY BehindFails, Fails

LEMMA HeaderFailsPlaced ==
  ASSUME PlaceInvariant, HeaderFails
  PROVE  PlaceInvariant'
  <1>1. PICK result \in {"error", "abort"} : Fail(result)
    <2>1. Unchecked("error") \in {"error", "abort"}
      BY DEF Unchecked
    <2> QED BY <2>1, Zenon DEF HeaderFails
  <1> QED BY <1>1, Fails

LEMMA ContentPlaced ==
  ASSUME PlaceInvariant, SetContent
  PROVE  PlaceInvariant'
  <1>1. Typed /\ Begun /\ Finish("request")
    BY DEF PlaceInvariant, Stands, SetContent
  <1>2. ShapeOf(request') /\ request'.method = request.method /\ request'.path = request.path
    <2>1. ShapeOf(request)
      BY <1>1 DEF Typed
    <2>2. PICK x : request' = [request EXCEPT !.body = x]
      BY DEF SetContent
    <2>3. /\ ShapeOf([request EXCEPT !.body = x]) /\ [request EXCEPT !.body = x].method = request.method
          /\ [request EXCEPT !.body = x].path = request.path
      BY <2>1, Reshaped
    <2> QED BY <2>2, <2>3
  <1>3. Begun'
    BY <1>1, <1>2, BegunStays DEF Finish
  <1> QED BY <1>1, <1>2, <1>3 DEF PlaceInvariant, Typed, Stands, Finish

LEMMA NextPlaced ==
  ASSUME PlaceInvariant, [Next]_vars
  PROVE  PlaceInvariant'
  <1>1. CASE UNCHANGED vars
    BY <1>1 DEF vars, PlaceInvariant, Typed, Stands, Begun, Start, StartsWith, Rest
  <1> QED BY <1>1, MethodPlaced, Space1Placed, PathPlaced, Space2Placed, VersionPlaced, EndPlaced, HeaderPlaced,
             BehindPlaced, HeaderFailsPlaced, ContentPlaced DEF Next

(***************************************************************************)
(* The invariant of the parser holds in every state, for every message     *)
(* that can arrive.                                                        *)
(***************************************************************************)
THEOREM ParserInvariant == Spec => []PlaceInvariant
  <1>1. Init => PlaceInvariant
    BY InitPlaced
  <1>2. PlaceInvariant /\ [Next]_vars => PlaceInvariant'
    BY NextPlaced
  <1> QED BY <1>1, <1>2, PTL DEF Spec

(***************************************************************************)
(* The view leaves the string at one place only, behind a header whose LF  *)
(* has not arrived, and only in a build without checks.                    *)
(***************************************************************************)
THEOREM ParserTypeCorrect == Spec => []TypeOK
  <1>1. PlaceInvariant => TypeOK
    BY DEF PlaceInvariant, Typed, ShapeOf, TypeOK
  <1> QED BY <1>1, ParserInvariant, PTL

-----------------------------------------------------------------------------
(* Where path and version stand.                                           *)

PathAt(i) ==
  /\ i \in Start + 1 .. Len(str) + 1 /\ \A j \in Start .. i - 1 : str[j] \in Blank
  /\ StartsWith(i, request.path) /\ \A k \in DOMAIN request.path : request.path[k] # SP
VersionFrom(i, v) ==
  \/ /\ request.path # <<>> /\ v \in i + Len(request.path) + 1 .. Len(str) + 1
     /\ \A j \in i + Len(request.path) .. v - 1 : str[j] \in Blank
  \/ ~Hardened /\ request.path = Rest(i) /\ v = i
Versioned(v, e) ==
  /\ e \in v + 1 .. v + 10 /\ e <= Len(str) + 1
  /\ request.version = "HTTP_2_0" <=> StartsWith(Skip(v, HTTP), <<"2">>)
  /\ request.version = "HTTP_1_0" => str[e - 1] = "0"

(***************************************************************************)
(* PathInPlace looks at a request that is finished; to get there, the      *)
(* places of the path and the version have to be known from the step on    *)
(* that reads them.                                                        *)
(***************************************************************************)
LineRemembered ==
  /\ pc = "path" => AtEnd(at) \/ str[at] \notin Blank
  /\ pc = "space2" =>
       \E i \in Nat : /\ PathAt(i)
                      /\ \/ request.path # <<>> /\ at = i + Len(request.path)
                         \/ /\ ~Hardened /\ request.path = Rest(i) /\ at = i - 1
                            /\ AtEnd(i) \/ str[i] \notin Blank
  /\ pc = "version" => \E i \in Nat : PathAt(i) /\ VersionFrom(i, at)
  /\ pc = "end" => \E i, v \in Nat : PathAt(i) /\ VersionFrom(i, v) /\ Versioned(v, at)
  /\ pc = "headers" \/ outcome = "request" =>
       \E i, v, e \in Nat : PathAt(i) /\ VersionFrom(i, v) /\ Versioned(v, e) /\ StartsWith(e, CRLF)

LineInvariant == PlaceInvariant /\ LineRemembered

\* What has been parsed stays where it was found.
LEMMA PathStays ==
  ASSUME str' = str, Hardened' = Hardened, request'.method = request.method, request'.path = request.path
  PROVE  /\ \A i : PathAt(i) => PathAt(i)'
         /\ \A i, v : VersionFrom(i, v) => VersionFrom(i, v)'
  <1>1. Start' = Start
    BY DEF Start
  <1>2. \A i, w : (StartsWith(i, w) => StartsWith(i, w)') /\ Rest(i)' = Rest(i)
    BY DEF StartsWith, Rest
  <1>3. \A i : PathAt(i) => PathAt(i)'
    <2> SUFFICES ASSUME NEW i, PathAt(i) PROVE PathAt(i)'
      OBVIOUS
    <2>1. PICK p : p = request.path
      OBVIOUS
    <2>2. StartsWith(i, request.path)'
      BY DEF PathAt, StartsWith, Rest
    <2> QED BY <1>1, <2>2, Zenon DEF PathAt
  <1>4. \A i, v : VersionFrom(i, v) => VersionFrom(i, v)'
    BY <1>2, Zenon DEF VersionFrom
  <1> QED BY <1>3, <1>4

LEMMA VersionStays ==
  ASSUME str' = str, request'.version = request.version
  PROVE  \A v, e : Versioned(v, e) => Versioned(v, e)'
  <1>1. \A i : StartsWith(i, <<"2">>)' = StartsWith(i, <<"2">>) /\ Skip(i, HTTP)' = Skip(i, HTTP)
    BY DEF StartsWith, Rest, Skip
  <1> QED BY <1>1, Zenon DEF Versioned

\* A parser that ends without a request needs no memory.
LEMMA NothingToRemember ==
  ASSUME LineInvariant, PlaceInvariant', pc' \in {"method", "space1", "behind", "done"}, outcome' # "request"
  PROVE  LineInvariant'
  BY DEF LineInvariant, LineRemembered

LEMMA Space1Remembers ==
  ASSUME LineInvariant, expect_two("space1", "path")
  PROVE  LineInvariant'
  <1>1. PlaceInvariant /\ PlaceInvariant' /\ outcome = "none" /\ str \in Words /\ pc = "space1"
    BY Space1Placed DEF LineInvariant, PlaceInvariant, Stands, Typed, expect_two
  <1>2. CASE pc' = "done"
    <2>1. outcome' # "request"
      BY <1>1, <1>2 DEF expect_two, Step, Finish, Unchecked
    <2> QED BY <1>1, <1>2, <2>1, NothingToRemember
  <1>3. CASE ~AtEnd(at) /\ str[at] \in Blank /\ Step("path", Behind(at))
    <2>1. at \in 1 .. Len(str)
      BY <1>1, <1>3 DEF PlaceInvariant, Typed, AtEnd, Words
    <2>2. PICK j : j = Behind(at)
      OBVIOUS
    <2>3. AtEnd(j) \/ str[j] \notin Blank
      BY <1>1, <1>3, <2>1, <2>2, BlanksEnd
    <2>4. pc' = "path" /\ at' = j /\ str' = str /\ outcome' = "none"
      BY <1>1, <1>3, <2>2 DEF Step
    <2>5. AtEnd(at)' \/ str'[at'] \notin Blank
      BY <2>3, <2>4 DEF AtEnd
    <2> QED BY <1>1, <2>4, <2>5 DEF LineInvariant, LineRemembered
  <1> QED BY <1>2, <1>3 DEF expect_two, Step, Finish, Behind

LEMMA PathRemembers ==
  ASSUME LineInvariant, next_token
  PROVE  LineInvariant'
  <1>1. /\ PlaceInvariant /\ PlaceInvariant' /\ outcome = "none" /\ str \in Words /\ pc = "path" /\ ShapeOf(request)
        /\ at > Start /\ \A j \in Start .. at - 1 : str[j] \in Blank
        /\ AtEnd(at) \/ str[at] \notin Blank
    BY PathPlaced DEF LineInvariant, LineRemembered, PlaceInvariant, Stands, Typed, next_token
  <1>2. at \in 1 .. Len(str) + 1 /\ Len(str) \in Nat /\ at \in Nat \ {0}
    BY <1>1 DEF PlaceInvariant, Typed, Words
  <1>3. Start \in Nat
    <2>1. PICK m \in DOMAIN Spell : m = request.method
      BY <1>1 DEF ShapeOf
    <2>2. PICK l \in Nat : l = Len(Spell[m])
      <3>1. Len(Spell[m]) \in 3 .. 7
        BY Spelled, Zenon
      <3>2. 3 .. 7 \subseteq Nat
        OBVIOUS
      <3> QED BY <3>1, <3>2, Zenon
    <2>3. l + 1 \in Nat
      OBVIOUS
    <2> QED BY <2>1, <2>2, <2>3, Zenon DEF Start
  <1>4. CASE pc' = "done"
    <2>1. outcome' # "request"
      BY <1>1, <1>4 DEF next_token, Step, Fail, Finish
    <2> QED BY <1>1, <1>4, <2>1, NothingToRemember
  <1>5. ASSUME NEW p \in Words, request' = [request EXCEPT !.path = p],
               pc' = "space2", outcome' = outcome, str' = str, Hardened' = Hardened,
               at + Len(p) <= Len(str) + 1, \A k \in 1 .. Len(p) : str[at + k - 1] = p[k] /\ p[k] # SP,
               \/ p # <<>> /\ at' = at + Len(p)
               \/ ~Hardened /\ p = Rest(at) /\ at' = at - 1
        PROVE  LineInvariant'
    <2>1. request'.path = p /\ request'.method = request.method
      BY <1>1, <1>5, Reshaped, Zenon
    <2>2. PICK a : a = at
      OBVIOUS
    <2>3. StartsWith(a, p)
      BY <1>1, <1>2, <1>5, <2>2, MeansStarts
    <2>4. PathAt(a)'
      <3>1. StartsWith(a, request.path)'
        BY <1>5, <2>1, <2>3 DEF StartsWith, Rest
      <3>2. Start' = Start /\ DOMAIN p = 1 .. Len(p)
        BY <2>1 DEF Start, Words
      <3>3. a \in Start + 1 .. Len(str) + 1
        BY <1>1, <1>2, <1>3, <2>2
      <3>4. \A j \in Start .. a - 1 : str[j] \in Blank
        BY <1>1, <2>2
      <3>5. \A k \in DOMAIN p : p[k] # SP
        BY <1>5, <3>2
      <3> QED BY <1>5, <2>1, <3>1, <3>2, <3>3, <3>4, <3>5, Zenon DEF PathAt
    <2>5. Rest(a)' = Rest(a) /\ AtEnd(a)' = AtEnd(a)
      BY <1>5 DEF Rest, AtEnd
    <2>6. \/ request'.path # <<>> /\ at' = a + Len(request'.path)
          \/ /\ ~Hardened' /\ request'.path = Rest(a)' /\ at' = a - 1
             /\ AtEnd(a)' \/ str'[a] \notin Blank
      BY <1>1, <1>5, <2>1, <2>2, <2>5, Zenon
    <2>7. a \in Nat
      BY <1>2, <2>2
    <2> QED BY <1>1, <1>5, <2>4, <2>6, <2>7 DEF LineInvariant, LineRemembered
  <1>6. CASE Find(at, {SP}) # {} /\ Step("space2", Min(Find(at, {SP}))) /\ request' = [request EXCEPT !.path = SubSeq(str, at, at' - 1)]
    <2>1. PICK e : e = at'
      OBVIOUS
    <2>2. e \in at .. Len(str) /\ str[e] \in {SP} /\ \A j \in at .. e - 1 : str[j] \notin {SP}
      <3>1. e = Min(Find(at, {SP}))
        BY <1>6, <2>1 DEF Step
      <3> QED BY <1>1, <1>2, <1>6, <3>1, FindIs
    <2>3. e > at
      <3>1. e # at
        BY <1>1, <1>2, <2>2, Characters DEF AtEnd
      <3> QED BY <1>2, <2>2, <3>1
    <2>4. PICK p : p = SubSeq(str, at, e - 1)
      OBVIOUS
    <2>5. p \in Words /\ Len(p) = e - at /\ \A k \in 1 .. Len(p) : str[at + k - 1] = p[k]
      BY <1>1, <1>2, <2>2, <2>3, <2>4, SubSeqProperties DEF Words
    <2>6. \A k \in 1 .. Len(p) : p[k] # SP
      <3> SUFFICES ASSUME NEW k \in 1 .. Len(p) PROVE p[k] # SP
        OBVIOUS
      <3>1. at + k - 1 \in at .. e - 1
        BY <1>2, <2>2, <2>5
      <3> QED BY <2>2, <2>5, <3>1
    <2>7. p # <<>> /\ at' = at + Len(p) /\ at + Len(p) <= Len(str) + 1
      <3>1. at + (e - at) = e /\ e - at # 0 /\ e <= Len(str) + 1
        BY <1>2, <2>2, <2>3
      <3>2. p # <<>>
        BY <2>5, <3>1
      <3> QED BY <2>1, <2>5, <3>1, <3>2
    <2>8. pc' = "space2" /\ outcome' = outcome /\ str' = str /\ Hardened' = Hardened
      BY <1>6 DEF Step
    <2>9. request' = [request EXCEPT !.path = p]
      BY <1>6, <2>1, <2>4
    <2> QED BY <1>5, <2>5, <2>6, <2>7, <2>8, <2>9
  <1>7. CASE Find(at, {SP}) = {} /\ ~Hardened /\ Step("space2", at - 1) /\ request' = [request EXCEPT !.path = Rest(at)]
    <2>1. PICK p : p = Rest(at)
      OBVIOUS
    <2>2. p \in Words /\ Len(p) = Len(str) - at + 1 /\ \A k \in 1 .. Len(p) : str[at + k - 1] = p[k]
      <3>1. at <= Len(str) + 1
        BY <1>2
      <3>2. /\ Rest(at) \in Words /\ Len(Rest(at)) = Len(str) - at + 1
            /\ \A k \in 1 .. Len(str) - at + 1 : Rest(at)[k] = str[at + k - 1]
        BY <1>1, <1>2, <3>1, RestIs
      <3> QED BY <2>1, <3>2
    <2>3. \A k \in 1 .. Len(p) : p[k] # SP
      <3> SUFFICES ASSUME NEW k \in 1 .. Len(p) PROVE p[k] # SP
        OBVIOUS
      <3>1. at + k - 1 \in at .. Len(str)
        BY <1>2, <2>2
      <3> QED BY <1>7, <2>2, <3>1 DEF Find
    <2>4. pc' = "space2" /\ outcome' = outcome /\ str' = str /\ Hardened' = Hardened /\ at' = at - 1
      BY <1>7 DEF Step
    <2>5. at + Len(p) <= Len(str) + 1
      BY <1>2, <2>2
    <2> QED BY <1>5, <1>7, <2>1, <2>2, <2>3, <2>4, <2>5
  <1> QED BY <1>4, <1>6, <1>7 DEF next_token, Fail, Finish

LEMMA Space2Remembers ==
  ASSUME LineInvariant, expect_two("space2", "version")
  PROVE  LineInvariant'
  <1>1. PlaceInvariant /\ PlaceInvariant' /\ outcome = "none" /\ str \in Words /\ pc = "space2" /\ request' = request
    BY Space2Placed DEF LineInvariant, PlaceInvariant, Stands, Typed, expect_two
  <1>2. CASE pc' = "done"
    <2>1. outcome' # "request"
      BY <1>1, <1>2 DEF expect_two, Step, Finish, Unchecked
    <2> QED BY <1>1, <1>2, <2>1, NothingToRemember
  <1>3. CASE ~AtEnd(at) /\ str[at] \in Blank /\ Step("version", Behind(at))
    <2>1. at \in 1 .. Len(str) /\ Len(str) \in Nat
      BY <1>1, <1>3 DEF PlaceInvariant, Typed, AtEnd, Words
    <2>2. PICK v : v = Behind(at)
      OBVIOUS
    <2>3. v \in at + 1 .. Len(str) + 1 /\ (\A n \in at .. v - 1 : str[n] \in Blank) /\ (AtEnd(v) \/ str[v] \notin Blank)
      BY <1>1, <1>3, <2>1, <2>2, BlanksEnd
    <2>4. pc' = "version" /\ at' = v /\ str' = str /\ outcome' = "none" /\ Hardened' = Hardened
      BY <1>1, <1>3, <2>2 DEF Step
    <2>5. PICK i \in Nat : /\ PathAt(i)
                           /\ \/ request.path # <<>> /\ at = i + Len(request.path)
                              \/ /\ ~Hardened /\ request.path = Rest(i) /\ at = i - 1
                                 /\ AtEnd(i) \/ str[i] \notin Blank
      BY <1>1 DEF LineInvariant, LineRemembered
    <2>6. VersionFrom(i, v)
      <3>1. CASE request.path # <<>> /\ at = i + Len(request.path)
        <4>1. v \in i + Len(request.path) + 1 .. Len(str) + 1
          BY <2>3, <3>1
        <4>2. \A j \in i + Len(request.path) .. v - 1 : str[j] \in Blank
          BY <2>3, <3>1
        <4> QED BY <3>1, <4>1, <4>2 DEF VersionFrom
      <3>2. CASE /\ ~Hardened /\ request.path = Rest(i) /\ at = i - 1
                 /\ AtEnd(i) \/ str[i] \notin Blank
        <4>1. v = i
          <5>1. i = at + 1 /\ v \in Nat /\ at \in Nat
            BY <2>1, <2>3, <3>2
          <5>2. ~(v > i)
            <6> SUFFICES ASSUME v > i PROVE FALSE
              OBVIOUS
            <6>1. i \in at .. v - 1 /\ i <= Len(str)
              BY <2>1, <2>3, <5>1
            <6>2. str[i] \in Blank
              BY <2>3, <6>1
            <6>3. ~AtEnd(i)
              BY <2>1, <6>1 DEF AtEnd
            <6> QED BY <3>2, <6>2, <6>3
          <5> QED BY <2>1, <2>3, <5>1, <5>2
        <4> QED BY <3>2, <4>1 DEF VersionFrom
      <3> QED BY <2>5, <3>1, <3>2
    <2>7. PathAt(i)' /\ VersionFrom(i, v)'
      BY <1>1, <2>4, <2>5, <2>6, PathStays
    <2>8. VersionFrom(i, at)'
      BY <2>4, <2>7 DEF VersionFrom
    <2> QED BY <1>1, <2>4, <2>7, <2>8 DEF LineInvariant, LineRemembered
  <1> QED BY <1>2, <1>3 DEF expect_two, Step, Finish, Behind

LEMMA VersionRemembers ==
  ASSUME LineInvariant, version_string_to_enum
  PROVE  LineInvariant'
  <1>1. /\ PlaceInvariant /\ PlaceInvariant' /\ outcome = "none" /\ str \in Words /\ pc = "version" /\ ShapeOf(request)
        /\ at \in 1 .. Len(str) + 1 /\ Len(str) \in Nat
    BY VersionPlaced DEF LineInvariant, PlaceInvariant, Stands, Typed, version_string_to_enum, Words
  <1>2. CASE pc' = "done"
    <2>1. outcome' # "request"
      BY <1>1, <1>2 DEF version_string_to_enum, Step, Fail, Finish
    <2> QED BY <1>1, <1>2, <2>1, NothingToRemember
  <1>3. PICK v : v = at
    OBVIOUS
  <1>4. v \in Nat \ {0} /\ v <= Len(str) + 1
    BY <1>1, <1>3
  <1>5. PICK major : major = Skip(v, HTTP)
    OBVIOUS
  <1>6. PICK minor : minor = Skip(major + 1, <<"1", ".">>)
    OBVIOUS
  <1>7. major \in v .. v + 5
    <2>1. HTTP \in Words /\ Len(HTTP) = 5 /\ Len(HTTP) > 0
      BY HTTPWord
    <2>2. major \in Nat \ {0} /\ v <= major /\ major <= v + Len(HTTP)
      BY <1>1, <1>4, <1>5, <2>1, SkipInside
    <2> QED BY <1>4, <2>1, <2>2
  <1>8. minor \in major + 1 .. major + 3
    <2>1. PICK w \in Words : w = <<"1", ".">> /\ Len(w) = 2 /\ Len(w) > 0
      BY VersionMarks
    <2>2. PICK m \in Nat \ {0} : m = major + 1
      BY <1>4, <1>7
    <2>3. minor = Skip(m, w)
      BY <1>6, <2>1, <2>2, Zenon
    <2>4. minor \in Nat \ {0} /\ m <= minor /\ minor <= m + Len(w)
      BY <1>1, <2>1, <2>3, SkipInside
    <2> QED BY <1>4, <1>7, <2>1, <2>2, <2>4
  <1>9. PICK i \in Nat : PathAt(i) /\ VersionFrom(i, v)
    BY <1>1, <1>3 DEF LineInvariant, LineRemembered
  <1>10. ASSUME NEW w \in DOMAIN HTTP_VERSION_STRINGS, request' = [request EXCEPT !.version = w],
                NEW e \in v + 1 .. v + 10, Step("end", e),
                w = "HTTP_2_0" <=> StartsWith(major, <<"2">>),
                w = "HTTP_1_0" => str[e - 1] = "0"
         PROVE  LineInvariant'
    <2>1. request'.version = w /\ request'.method = request.method /\ request'.path = request.path
      <3>1. /\ [request EXCEPT !.version = w].method = request.method
            /\ [request EXCEPT !.version = w].path = request.path
        BY <1>1, Reshaped
      <3>2. [request EXCEPT !.version = w].version = w
        BY <1>1 DEF ShapeOf
      <3> QED BY <1>10, <3>1, <3>2
    <2>2. pc' = "end" /\ at' = e /\ str' = str /\ outcome' = "none" /\ Hardened' = Hardened
      BY <1>1, <1>10 DEF Step
    <2>3. PathAt(i)' /\ VersionFrom(i, v)'
      BY <1>9, <2>1, <2>2, PathStays
    <2>4. e <= Len(str) + 1
      BY <1>1, <1>4, <2>2 DEF PlaceInvariant, Typed
    <2>5. StartsWith(Skip(v, HTTP), <<"2">>)' = StartsWith(major, <<"2">>)
      BY <1>5, <2>2 DEF StartsWith, Rest, Skip
    <2>6. Versioned(v, e)'
      BY <1>10, <2>1, <2>2, <2>4, <2>5, Zenon DEF Versioned
    <2>7. Versioned(v, at)'
      BY <2>2, <2>6 DEF Versioned
    <2>8. v \in Nat
      BY <1>4
    <2> QED BY <1>1, <2>2, <2>3, <2>7, <2>8 DEF LineInvariant, LineRemembered
  <1>11. {"HTTP_1_0", "HTTP_1_1", "HTTP_2_0"} = DOMAIN HTTP_VERSION_STRINGS
    BY DEF HTTP_VERSION_STRINGS
  <1>12. CASE /\ StartsWith(major, <<"2">>) /\ Step("end", Skip(major + 1, <<".", "0">>))
              /\ request' = [request EXCEPT !.version = "HTTP_2_0"]
    <2>1. PICK w \in Words : w = <<".", "0">> /\ Len(w) = 2 /\ Len(w) > 0
      BY VersionMarks
    <2>2. PICK m \in Nat \ {0} : m = major + 1
      BY <1>4, <1>7
    <2>3. PICK e : e = Skip(m, w)
      OBVIOUS
    <2>4. m <= e /\ e <= m + Len(w) /\ e \in Nat
      BY <1>1, <2>1, <2>3, SkipInside
    <2>5. e \in v + 1 .. v + 10
      BY <1>4, <1>7, <2>1, <2>2, <2>4
    <2>6. Step("end", e)
      BY <1>12, <2>1, <2>2, <2>3, Zenon
    <2> QED BY <1>10, <1>11, <1>12, <2>5, <2>6
  <1>13. CASE /\ ~StartsWith(major, <<"2">>) /\ StartsWith(minor, <<"0">>) /\ Step("end", minor + 1)
              /\ request' = [request EXCEPT !.version = "HTTP_1_0"]
    <2>1. PICK w \in Words : w = <<"0">> /\ Len(w) = 1 /\ Len(w) > 0 /\ w[1] = "0"
      BY VersionMarks
    <2>2. minor \in Nat \ {0}
      BY <1>4, <1>7, <1>8
    <2>3. StartsWith(minor, w)
      BY <1>13, <2>1
    <2>4. \A k \in 1 .. Len(w) : str[minor + k - 1] = w[k]
      BY <1>1, <2>1, <2>2, <2>3, StartsMeans
    <2>5. str[minor] = "0"
      <3>1. str[minor + 1 - 1] = w[1] /\ minor + 1 - 1 = minor
        BY <2>1, <2>2, <2>4
      <3> QED BY <2>1, <3>1
    <2>6. PICK e : e = minor + 1
      OBVIOUS
    <2>7. e \in v + 1 .. v + 10 /\ e - 1 = minor
      BY <1>4, <1>7, <1>8, <2>6
    <2>8. str[e - 1] = "0" /\ Step("end", e)
      BY <1>13, <2>5, <2>6, <2>7
    <2>9. "HTTP_1_0" \in DOMAIN HTTP_VERSION_STRINGS /\ "HTTP_1_0" # "HTTP_2_0"
      BY <1>11
    <2> QED BY <1>10, <1>13, <2>7, <2>8, <2>9, Zenon
  <1>14. CASE /\ ~StartsWith(major, <<"2">>) /\ Step("end", Skip(minor + 1, <<"1">>))
              /\ request' = [request EXCEPT !.version = "HTTP_1_1"]
    <2>1. PICK w \in Words : w = <<"1">> /\ Len(w) = 1 /\ Len(w) > 0
      BY VersionMarks
    <2>2. PICK m \in Nat \ {0} : m = minor + 1
      BY <1>4, <1>7, <1>8
    <2>3. PICK e : e = Skip(m, w)
      OBVIOUS
    <2>4. m <= e /\ e <= m + Len(w) /\ e \in Nat
      BY <1>1, <2>1, <2>3, SkipInside
    <2>5. e \in v + 1 .. v + 10
      BY <1>4, <1>7, <1>8, <2>1, <2>2, <2>4
    <2>6. Step("end", e)
      BY <1>14, <2>1, <2>2, <2>3, Zenon
    <2> QED BY <1>10, <1>11, <1>14, <2>5, <2>6
  <1>15. CASE Fail("throws")
    BY <1>2, <1>15 DEF Fail, Finish
  <1> QED BY <1>3, <1>5, <1>6, <1>12, <1>13, <1>14, <1>15 DEF version_string_to_enum

LEMMA EndRemembers ==
  ASSUME LineInvariant, expect_end
  PROVE  LineInvariant'
  <1>1. PlaceInvariant /\ PlaceInvariant' /\ outcome = "none" /\ str \in Words /\ pc = "end" /\ request' = request
    BY EndPlaced DEF LineInvariant, PlaceInvariant, Stands, Typed, expect_end
  <1>2. CASE Finish("error")
    BY <1>1, <1>2, NothingToRemember DEF Finish
  <1>3. CASE StartsWith(at, CRLF) /\ Step("headers", at + 2)
    <2>1. PICK e \in Nat : e = at
      BY <1>1 DEF PlaceInvariant, Typed, Words
    <2>2. PICK i, v \in Nat : PathAt(i) /\ VersionFrom(i, v) /\ Versioned(v, e)
      BY <1>1, <2>1 DEF LineInvariant, LineRemembered
    <2>3. pc' = "headers" /\ str' = str /\ Hardened' = Hardened
      BY <1>3 DEF Step
    <2>4. PathAt(i)' /\ VersionFrom(i, v)' /\ Versioned(v, e)'
      BY <1>1, <2>2, <2>3, PathStays, VersionStays
    <2>5. StartsWith(e, CRLF)'
      BY <1>3, <2>1, <2>3 DEF StartsWith, Rest
    <2> QED BY <1>1, <2>3, <2>4, <2>5 DEF LineInvariant, LineRemembered
  <1> QED BY <1>2, <1>3 DEF expect_end

\* Neither the headers nor the body touch the request line.
LEMMA RestRemembers ==
  ASSUME LineInvariant, pc = "headers", PlaceInvariant', str' = str, Hardened' = Hardened,
         \E x : request' = [request EXCEPT !.headers = x] \/ request' = [request EXCEPT !.body = x],
         pc' \in {"headers", "behind", "done"}
  PROVE  LineInvariant'
  <1>1. request'.method = request.method /\ request'.path = request.path /\ request'.version = request.version
    <2>1. ShapeOf(request)
      BY DEF LineInvariant, PlaceInvariant, Typed
    <2> QED BY <2>1 DEF ShapeOf
  <1>2. PICK i, v, e \in Nat : PathAt(i) /\ VersionFrom(i, v) /\ Versioned(v, e) /\ StartsWith(e, CRLF)
    BY DEF LineInvariant, LineRemembered
  <1>3. PathAt(i)' /\ VersionFrom(i, v)' /\ Versioned(v, e)'
    BY <1>1, <1>2, PathStays, VersionStays
  <1>4. StartsWith(e, CRLF)'
    BY <1>2 DEF StartsWith, Rest
  <1> QED BY <1>3, <1>4 DEF LineInvariant, LineRemembered

LEMMA NextRemembers ==
  ASSUME LineInvariant, [Next]_vars
  PROVE  LineInvariant'
  <1>1. PlaceInvariant /\ PlaceInvariant'
    BY NextPlaced DEF LineInvariant
  <1>2. CASE UNCHANGED vars
    <2>1. /\ str' = str /\ Hardened' = Hardened /\ request' = request /\ at' = at /\ pc' = pc /\ outcome' = outcome
      BY <1>2 DEF vars
    <2>2. AtEnd(at)' = AtEnd(at) /\ \A i : Rest(i)' = Rest(i) /\ AtEnd(i)' = AtEnd(i) /\ StartsWith(i, CRLF)' = StartsWith(i, CRLF)
      BY <2>1 DEF AtEnd, Rest, StartsWith
    <2>3. /\ \A i : PathAt(i) => PathAt(i)'
          /\ \A i, v : VersionFrom(i, v) => VersionFrom(i, v)'
          /\ \A v, e : Versioned(v, e) => Versioned(v, e)'
      BY <2>1, PathStays, VersionStays
    <2>4. /\ \A i : VersionFrom(i, at) => VersionFrom(i, at)'
          /\ \A v : Versioned(v, at) => Versioned(v, at)'
      BY <2>1, <2>2 DEF VersionFrom, Versioned, StartsWith, Rest, Skip
    <2> QED BY <1>1, <2>1, <2>2, <2>3, <2>4, Zenon DEF LineInvariant, LineRemembered
  <1>3. CASE method_string_to_enum
    <2>1. pc' \in {"space1", "done"} /\ outcome' # "request"
      BY <1>1, <1>3 DEF method_string_to_enum, Step, Fail, Finish, Unchecked, PlaceInvariant, Stands
    <2> QED BY <1>1, <2>1, NothingToRemember
  <1>4. CASE ReadsOn
    <2>1. pc' = "done" /\ outcome' # "request"
      BY <1>1, <1>4, BehindFails DEF Fail, Finish
    <2> QED BY <1>1, <2>1, NothingToRemember
  <1>5. CASE HeaderFails
    <2>1. pc' = "done" /\ outcome' # "request"
      BY <1>5 DEF HeaderFails, Fail, Finish, Unchecked
    <2> QED BY <1>1, <2>1, NothingToRemember
  <1>6. CASE parse_header
    <2>1. \E x : request' = [request EXCEPT !.headers = x]
      BY <1>6, Zenon DEF parse_header, SetHeader
    <2>2. pc = "headers" /\ str' = str /\ Hardened' = Hardened /\ pc' \in {"headers", "behind", "done"}
      BY <1>6 DEF parse_header, Step, Finish
    <2> QED BY <1>1, <2>1, <2>2, RestRemembers
  <1>7. CASE SetContent
    <2>1. \E x : request' = [request EXCEPT !.body = x]
      BY <1>7 DEF SetContent
    <2>2. pc = "headers" /\ str' = str /\ Hardened' = Hardened /\ pc' = "done"
      BY <1>7 DEF SetContent, Finish
    <2> QED BY <1>1, <2>1, <2>2, RestRemembers
  <1> QED BY <1>2, <1>3, <1>4, <1>5, <1>6, <1>7, Space1Remembers, PathRemembers, Space2Remembers, VersionRemembers,
             EndRemembers DEF Next

(***************************************************************************)
(* Method, path and version of what parse_http_request returns were found  *)
(* where a request line has them, in every message and every build; only   *)
(* without checks may the path be all the rest of the message.             *)
(***************************************************************************)
THEOREM PathFound == Spec => []PathInPlace
  <1>1. Init => LineInvariant
    BY InitPlaced DEF Init, LineInvariant, LineRemembered
  <1>2. LineInvariant /\ [Next]_vars => LineInvariant'
    BY NextRemembers
  <1>3. ASSUME LineInvariant PROVE PathInPlace
    <2> SUFFICES ASSUME outcome = "request"
                 PROVE  /\ IsPrefix(Spell[request.method], str)
                        /\ \E i \in Start + 1 .. Len(str) :
                             /\ \A j \in Start .. i - 1 : str[j] \in Blank
                             /\ /\ request.path # <<>> /\ StartsWith(i, request.path)
                                /\ \A k \in DOMAIN request.path : request.path[k] # SP
                             /\ \/ \E v \in i + Len(request.path) + 1 .. Len(str) :
                                     VersionAt(v) /\ \A j \in i + Len(request.path) .. v - 1 : str[j] \in Blank
                                \/ ~Hardened /\ request.path = Rest(i) /\ VersionAt(i)
      BY Zenon DEF PathInPlace, Start
    <2>1. str \in Words /\ Len(str) \in Nat /\ Begun /\ ShapeOf(request)
      BY <1>3 DEF LineInvariant, PlaceInvariant, Typed, Stands, Words
    <2>2. IsPrefix(Spell[request.method], str)
      BY <2>1, WholeRest DEF Begun, StartsWith
    <2>3. PICK i, v, e \in Nat : PathAt(i) /\ VersionFrom(i, v) /\ Versioned(v, e) /\ StartsWith(e, CRLF)
      BY <1>3 DEF LineInvariant, LineRemembered
    <2>4. e + 1 <= Len(str) /\ v + 1 <= e
      <3>1. e >= v + 1 /\ e # 0 /\ Len(CRLF) = 2 /\ CRLF \in Words
        BY <2>3, Characters DEF Versioned
      <3>2. Len(CRLF) > 0 /\ e \in Nat \ {0}
        BY <3>1
      <3>3. e + Len(CRLF) <= Len(str) + 1
        BY <2>1, <2>3, <3>1, <3>2, StartsMeans
      <3> QED BY <2>1, <3>1, <3>3
    <2>5. VersionAt(v)
      <3>1. e \in v + 1 .. Len(str) /\ e <= v + 10
        BY <2>1, <2>3, <2>4 DEF Versioned
      <3> QED BY <2>3, <3>1, Zenon DEF Versioned, VersionAt
    <2>6. PICK p \in Words : p = request.path /\ Len(p) \in Nat
      BY <2>1 DEF ShapeOf, Words
    <2>7. i \in Start + 1 .. Len(str) + 1
      BY <2>3 DEF PathAt
    <2>8. CASE request.path # <<>> /\ v \in i + Len(request.path) + 1 .. Len(str) + 1 /\ \A j \in i + Len(request.path) .. v - 1 : str[j] \in Blank
      <3>1. v \in i + Len(p) + 1 .. Len(str) + 1 /\ v <= Len(str)
        BY <2>1, <2>4, <2>6, <2>8
      <3>2. v \in i + Len(p) + 1 .. Len(str) /\ i <= Len(str)
        BY <2>1, <2>6, <3>1
      <3>3. i \in Start + 1 .. Len(str)
        BY <2>7, <3>2
      <3>4. \E u \in i + Len(request.path) + 1 .. Len(str) :
              VersionAt(u) /\ \A j \in i + Len(request.path) .. u - 1 : str[j] \in Blank
        BY <2>5, <2>6, <2>8, <3>2
      <3> QED BY <2>2, <2>3, <2>8, <3>3, <3>4, Zenon DEF PathAt
    <2>9. CASE ~Hardened /\ request.path = Rest(i) /\ v = i
      <3>1. i <= Len(str) /\ i \in Nat \ {0}
        <4>1. i >= 1
          BY <2>1, <2>7 DEF ShapeOf, Start
        <4> QED BY <2>1, <2>4, <2>9, <4>1
      <3>2. Len(Rest(i)) = Len(str) - i + 1
        BY <2>1, <3>1, RestIs
      <3>3. request.path # <<>>
        BY <2>1, <2>9, <3>1, <3>2
      <3>4. i \in Start + 1 .. Len(str)
        BY <2>7, <3>1
      <3> QED BY <2>2, <2>3, <2>5, <2>9, <3>3, <3>4, Zenon DEF PathAt
    <2> QED BY <2>3, <2>8, <2>9 DEF VersionFrom
  <1> QED BY <1>1, <1>2, <1>3, PTL DEF Spec

-----------------------------------------------------------------------------
(* Where the parser throws.                                                *)

\* The path of W is from s on, up to the blank at e.
Marked(W, s, e) ==
  /\ W \in Words /\ s \in 5 .. 9 /\ e \in Nat /\ e > s /\ Len(W) >= e + 10
  /\ \A k \in s .. e - 1 : W[k] \notin Blank
  /\ W[e] = SP
  /\ \A k \in e + 1 .. e + 8 : W[k] \notin Blank
  /\ \A k \in 1 .. 5 : W[e + k] = HTTP[k]
  /\ W[e + 7] = "."

LEMMA Landmarks ==
  ASSUME sent \in Sent
  PROVE  \E s, e \in Nat : s = PathStart /\ e = PathEnd /\ LineEnd = e + 8 /\ Marked(Wire(sent), s, e)
  <1>1. PICK W, A, P, V : W = Wire(sent) /\ A = Spell[sent.method] /\ P = sent.path /\ V = HTTP_VERSION_STRINGS[sent.version]
    OBVIOUS
  <1>2. Laid(W, A, P, V)
    BY <1>1, WireLaid, Zenon
  <1>3. PICK a \in 3 .. 7 : a = Len(A)
    BY <1>2, Zenon DEF Laid
  <1>4. PICK l \in Nat \ {0} : l = Len(P)
    BY <1>2, Zenon DEF Laid
  <1>5. W \in Words /\ Len(W) >= a + l + 12
    BY <1>2, <1>3, <1>4, Zenon DEF Laid
  <1>6. PICK s \in Nat : s = a + 2
    OBVIOUS
  <1>7. PICK e \in Nat : e = a + 2 + l
    OBVIOUS
  <1>8. s = PathStart /\ e = PathEnd
    BY <1>1, <1>3, <1>4, <1>6, <1>7, Zenon DEF PathStart, PathEnd
  <1>9. LineEnd = e + 8
    <2>1. Len(V) = 8
      BY <1>2 DEF Laid
    <2> QED BY <1>1, <1>8, <2>1, Zenon DEF LineEnd
  <1>10. /\ \A k \in 1 .. 5 : V[k] = HTTP[k]
         /\ V[6] \in {"1", "2"} /\ V[7] = "." /\ V[8] \in {"0", "1"}
    <2>1. PICK v \in DOMAIN HTTP_VERSION_STRINGS : v = sent.version
      BY SentAssumption
    <2>2. V = HTTP_VERSION_STRINGS[v]
      BY <1>1, <2>1
    <2> QED BY ONLY <2>2, v \in DOMAIN HTTP_VERSION_STRINGS, VersionWords
  <1>11. ASSUME NEW k \in s .. e - 1 PROVE W[k] \notin Blank
    <2>1. PICK j \in 1 .. l : k = a + 1 + j
      <3>1. k - a - 1 \in 1 .. l /\ k = a + 1 + (k - a - 1)
        BY <1>6, <1>7
      <3> QED BY <3>1
    <2>2. W[a + 1 + j] = P[j] /\ P[j] \notin Blank
      BY <1>2, <1>3, <1>4 DEF Laid
    <2> QED BY <2>1, <2>2
  <1>12. W[e] = SP
    <2>1. W[a + 2 + l] = SP
      BY <1>2, <1>3, <1>4, Zenon DEF Laid
    <2> QED BY <1>7, <2>1
  <1>13. \A k \in 1 .. 8 : W[e + k] = V[k]
    <2>1. \A k \in 1 .. 8 : W[a + 2 + l + k] = V[k]
      BY <1>2, <1>3, <1>4, Zenon DEF Laid
    <2> QED BY <1>7, <2>1
  <1>14. ASSUME NEW k \in e + 1 .. e + 8 PROVE W[k] \notin Blank
    <2>1. \A j \in 1 .. 8 : V[j] \notin Blank
      <3>1. V[1] = "H" /\ V[2] = "T" /\ V[3] = "T" /\ V[4] = "P" /\ V[5] = "/"
        BY <1>10, HTTPWord
      <3>2. V[1] \notin Blank /\ V[2] \notin Blank /\ V[3] \notin Blank /\ V[4] \notin Blank /\ V[5] \notin Blank
        BY <3>1 DEF Blank, SP, HT
      <3>3. V[6] \notin Blank /\ V[7] \notin Blank /\ V[8] \notin Blank
        BY <1>10 DEF Blank, SP, HT
      <3> QED BY <3>2, <3>3
    <2>2. PICK j \in 1 .. 8 : k = e + j
      <3>1. k - e \in 1 .. 8 /\ k = e + (k - e)
        OBVIOUS
      <3> QED BY <3>1
    <2> QED BY <1>13, <2>1, <2>2
  <1>15. (\A k \in 1 .. 5 : W[e + k] = HTTP[k]) /\ W[e + 7] = "."
    BY <1>10, <1>13
  <1>16. s \in 5 .. 9 /\ e > s /\ Len(W) >= e + 10
    <2>1. PICK w \in Nat : w = Len(W)
      BY <1>5 DEF Words
    <2>2. w >= a + l + 12
      BY <1>5, <2>1
    <2>3. w >= e + 10
      BY <1>7, <2>2
    <2> QED BY <1>5, <1>6, <1>7, <2>1, <2>3
  <1>17. Marked(W, s, e)
    BY <1>5, <1>11, <1>12, <1>14, <1>15, <1>16 DEF Marked
  <1> QED BY <1>1, <1>8, <1>9, <1>17, Zenon

\* Two methods differ in two of their first three characters.
LEMMA MethodsDiffer ==
  ASSUME NEW m \in DOMAIN Spell, NEW n \in DOMAIN Spell, m # n
  PROVE  \E i, j \in 1 .. 3 : i # j /\ Spell[m][i] # Spell[n][i] /\ Spell[m][j] # Spell[n][j]
  <1>1. DOMAIN Spell = {"GET", "POST", "PUT", "DELETE", "HEAD", "OPTIONS", "TRACE", "CONNECT"}
    BY DEF Spell
  <1>2. /\ Spell["GET"][1] = "G" /\ Spell["GET"][2] = "E" /\ Spell["GET"][3] = "T"
        /\ Spell["POST"][1] = "P" /\ Spell["POST"][2] = "O" /\ Spell["POST"][3] = "S"
        /\ Spell["PUT"][1] = "P" /\ Spell["PUT"][2] = "U" /\ Spell["PUT"][3] = "T"
        /\ Spell["DELETE"][1] = "D" /\ Spell["DELETE"][2] = "E" /\ Spell["DELETE"][3] = "L"
    BY DEF Spell
  <1>3. /\ Spell["HEAD"][1] = "H" /\ Spell["HEAD"][2] = "E" /\ Spell["HEAD"][3] = "A"
        /\ Spell["OPTIONS"][1] = "O" /\ Spell["OPTIONS"][2] = "P" /\ Spell["OPTIONS"][3] = "T"
        /\ Spell["TRACE"][1] = "T" /\ Spell["TRACE"][2] = "R" /\ Spell["TRACE"][3] = "A"
        /\ Spell["CONNECT"][1] = "C" /\ Spell["CONNECT"][2] = "O" /\ Spell["CONNECT"][3] = "N"
    BY DEF Spell
  <1>4. \/ Spell[m][1] # Spell[n][1] /\ Spell[m][2] # Spell[n][2]
        \/ Spell[m][1] # Spell[n][1] /\ Spell[m][3] # Spell[n][3]
        \/ Spell[m][2] # Spell[n][2] /\ Spell[m][3] # Spell[n][3]
    BY <1>1, <1>2, <1>3
  <1> QED BY <1>4


\* The characters of the method are the ones that were sent.
LEMMA MethodRight ==
  ASSUME Typed, Delivered, Begun
  PROVE  request.method = sent.method
  <1>1. PICK m : m = request.method
    OBVIOUS
  <1>2. PICK n : n = sent.method
    OBVIOUS
  <1>3. m \in DOMAIN Spell /\ n \in DOMAIN Spell /\ sent \in Sent /\ str \in Words
    BY <1>1, <1>2, SentAssumption DEF Typed, ShapeOf, Delivered
  <1>4. PICK u \in Words : u = Spell[m] /\ Len(u) \in 3 .. 7
    BY <1>3, Spelled, Zenon
  <1>5. PICK v \in Words : v = Spell[n] /\ Len(v) \in 3 .. 7
    BY <1>3, Spelled, Zenon
  <1>6. PICK W : W = Wire(sent)
    OBVIOUS
  <1>7. \A k \in 1 .. Len(v) : W[k] = v[k]
    BY <1>2, <1>3, <1>5, <1>6, WireLaid, Zenon DEF Laid
  <1>8. Len(u) < Len(str) + 1 /\ \A k \in 1 .. 3 : str[k] = u[k]
    <2>1. StartsWith(1, u)
      BY <1>1, <1>4, Zenon DEF Begun
    <2>2. Len(u) > 0 /\ 1 \in Nat \ {0}
      BY <1>4
    <2>3. 1 + Len(u) <= Len(str) + 1 /\ \A k \in 1 .. Len(u) : str[1 + k - 1] = u[k]
      BY <1>3, <2>1, <2>2, StartsMeans
    <2>4. Len(str) \in Nat /\ Len(u) \in Nat /\ Len(u) >= 3
      <3>1. PICK l \in 3 .. 7 : l = Len(u)
        BY <1>4, Zenon
      <3>2. l \in Nat /\ l >= 3
        OBVIOUS
      <3>3. Len(str) \in Nat
        BY <1>3 DEF Words
      <3> QED BY <3>1, <3>2, <3>3, Zenon
    <2> QED BY <2>3, <2>4
  <1>9. \A k \in 1 .. 3 : W[k] = v[k]
    <2>1. PICK l \in 3 .. 7 : l = Len(v)
      BY <1>5
    <2>2. \A k \in 1 .. l : W[k] = v[k]
      BY <1>7, <2>1
    <2> QED BY <2>2
  <1>10. \A k \in 1 .. 3 : k \in 1 .. Len(str)
    <2>1. Len(str) \in Nat /\ Len(u) >= 3 /\ Len(u) \in Nat
      <3>1. PICK l \in 3 .. 7 : l = Len(u)
        BY <1>4, Zenon
      <3>2. l \in Nat /\ l >= 3
        OBVIOUS
      <3>3. Len(str) \in Nat
        BY <1>3 DEF Words
      <3> QED BY <3>1, <3>2, <3>3, Zenon
    <2> QED BY <1>8, <2>1
  <1>11. \E d : \A k \in 1 .. 3 : k # d => str[k] = W[k]
    BY <1>6, <1>10 DEF Delivered, Cut, DamagedAt
  <1>12. m = n
    <2> SUFFICES ASSUME m # n PROVE FALSE
      OBVIOUS
    <2>1. PICK i, j \in 1 .. 3 : i # j /\ u[i] # v[i] /\ u[j] # v[j]
      BY <1>3, <1>4, <1>5, MethodsDiffer, Zenon
    <2>2. PICK d : \A k \in 1 .. 3 : k # d => str[k] = W[k]
      BY <1>11
    <2> QED BY <1>8, <1>9, <2>1, <2>2
  <1> QED BY <1>1, <1>2, <1>12

\* The path and the blank behind it have arrived as they were sent.
Clean == \A n \in PathStart .. PathEnd : str[n] = Wire(sent)[n]

\* Up to the version, the parser is where the client meant it to be, or has lost its way in the path.
Reading ==
  /\ pc = "space2" /\ Len(str) >= LineEnd /\ Clean => at = PathEnd
  /\ pc = "version" =>
       /\ at > 1 /\ str[at - 1] \in Blank
       /\ Len(str) >= LineEnd /\ Clean => at = PathEnd + 1 \/ (at = PathEnd + 2 /\ Len(str) >= LineEnd + 2)

(***************************************************************************)
(* ThrowsOnlyCut depends on how far the parser is from the end of the      *)
(* string when it comes to the version, and this on what arrived.          *)
(***************************************************************************)
ThrowInvariant == PlaceInvariant /\ Delivered /\ Reading /\ ThrowsOnlyCut


\* A path that is whole is found where it was put.
LEMMA PathReached ==
  ASSUME PlaceInvariant, Delivered, pc = "path", Len(str) >= LineEnd, Clean
  PROVE  Find(at, {SP}) # {} /\ Min(Find(at, {SP})) = PathEnd
  <1>1. /\ Typed /\ Begun /\ at > Start /\ \A j \in Start .. at - 1 : str[j] \in Blank
        /\ str \in Words /\ Len(str) \in Nat /\ at \in 1 .. Len(str) + 1
    BY DEF PlaceInvariant, Stands, Typed, Words
  <1>2. PICK W : W = Wire(sent)
    OBVIOUS
  <1>3. PICK s, e \in Nat : s = PathStart /\ e = PathEnd /\ LineEnd = e + 8 /\ Marked(W, s, e)
    BY <1>2, Landmarks, Zenon DEF Delivered
  <1>4. \A n \in s .. e : str[n] = W[n]
    BY <1>2, <1>3, Zenon DEF Clean
  <1>5. Len(str) >= e + 8
    BY <1>3, Zenon
  <1>6. PICK b \in Nat : b = Start /\ b + 1 = s
    <2>1. request.method = sent.method
      BY <1>1, MethodRight
    <2>2. PICK l \in Nat : l = Len(Spell[sent.method])
      <3>1. sent \in Sent
        BY DEF Delivered
      <3>2. Len(Spell[sent.method]) \in 3 .. 7
        BY <3>1, WireIs, Zenon
      <3>3. PICK l \in 3 .. 7 : l = Len(Spell[sent.method])
        BY <3>2, Zenon
      <3>4. l \in Nat
        OBVIOUS
      <3> QED BY <3>3, <3>4, Zenon
    <2>3. l + 1 = Start /\ s = l + 2
      BY <1>3, <2>1, <2>2, Zenon DEF Start, PathStart
    <2>4. l + 1 \in Nat /\ l + 1 + 1 = s
      BY <2>3
    <2> QED BY <2>3, <2>4, Zenon
  <1>7. s \in 5 .. 9 /\ e > s /\ (\A k \in s .. e - 1 : W[k] \notin Blank) /\ W[e] = SP
    BY <1>3 DEF Marked
  <1>8. at > b /\ \A j \in b .. at - 1 : str[j] \in Blank
    BY <1>1, <1>6, Zenon
  <1>9. at = s
    <2>1. str[s] \notin Blank
      BY <1>4, <1>7
    <2>2. b + 1 = s
      BY <1>6
    <2> QED BY <1>1, <1>8, <2>1, <2>2
  <1>10. e \in Find(at, {SP})
    BY <1>1, <1>4, <1>5, <1>7, <1>9 DEF Find
  <1>11. PICK m : m = Min(Find(at, {SP}))
    OBVIOUS
  <1>12. m \in at .. Len(str) /\ str[m] \in {SP} /\ \A j \in at .. m - 1 : str[j] \notin {SP}
    <2>1. at \in Nat \ {0} /\ Find(at, {SP}) # {}
      BY <1>1, <1>10
    <2> QED BY <1>1, <1>11, <2>1, FindIs
  <1>13. m = e
    <2>1. ~(e < m)
      BY <1>1, <1>4, <1>7, <1>9, <1>12
    <2>2. ~(m < e)
      BY <1>1, <1>4, <1>7, <1>9, <1>12, Characters
    <2> QED BY <1>1, <1>12, <2>1, <2>2
  <1> QED BY <1>3, <1>10, <1>11, <1>13

\* Of the blanks behind the path at most one was not sent.
LEMMA VersionReached ==
  ASSUME PlaceInvariant, Delivered, Reading, pc = "space2", ~AtEnd(at), str[at] \in Blank, NEW j, j = Behind(at)
  PROVE  /\ j \in Nat /\ j > 1 /\ str[j - 1] \in Blank
         /\ Len(str) >= LineEnd /\ Clean => j = PathEnd + 1 \/ (j = PathEnd + 2 /\ Len(str) >= LineEnd + 2)
  <1>1. str \in Words /\ Len(str) \in Nat /\ at \in 1 .. Len(str)
    BY DEF PlaceInvariant, Typed, Words, AtEnd
  <1>2. j \in at + 1 .. Len(str) + 1 /\ \A n \in at .. j - 1 : str[n] \in Blank
    BY <1>1, BlanksEnd
  <1>3. j \in Nat /\ j > 1 /\ str[j - 1] \in Blank
    BY <1>1, <1>2
  <1>4. ASSUME Len(str) >= LineEnd, Clean
        PROVE  j = PathEnd + 1 \/ (j = PathEnd + 2 /\ Len(str) >= LineEnd + 2)
    <2>1. PICK W : W = Wire(sent)
      OBVIOUS
    <2>2. PICK s, e \in Nat : s = PathStart /\ e = PathEnd /\ LineEnd = e + 8 /\ Marked(W, s, e)
      BY <2>1, Landmarks, Zenon DEF Delivered
    <2>3. Len(str) >= e + 8 /\ at = e
      BY <1>4, <2>2, Zenon DEF Reading
    <2>4. W \in Words /\ Len(W) \in Nat /\ Len(W) >= e + 10 /\ \A k \in e + 1 .. e + 8 : W[k] \notin Blank
      BY <2>2 DEF Marked, Words
    <2>5. CASE j = e + 1
      BY <2>2, <2>5, Zenon
    <2>6. CASE j # e + 1
      <3>1. str[e + 1] \in Blank /\ e + 1 \in 1 .. Len(str) /\ e + 2 \in 1 .. Len(str)
        BY <1>1, <1>2, <2>3, <2>6
      <3>2. str[e + 1] # W[e + 1] /\ W[e + 2] \notin Blank
        BY <2>4, <3>1
      <3>3. PICK d : Len(str) = Len(W) /\ \A n \in 1 .. Len(str) : n # d => str[n] = W[n]
        BY <2>1, <3>1, <3>2, Zenon DEF Delivered, Cut, DamagedAt
      <3>4. d = e + 1
        BY <3>1, <3>2, <3>3
      <3>5. str[e + 2] \notin Blank
        BY <3>1, <3>2, <3>3, <3>4
      <3>6. j = e + 2
        BY <1>1, <1>2, <2>3, <2>6, <3>5
      <3>7. Len(str) >= e + 8 + 2
        BY <2>4, <3>3
      <3> QED BY <2>2, <3>6, <3>7, Zenon
    <2> QED BY <2>5, <2>6
  <1> QED BY <1>3, <1>4

\* The parser runs into the end of the string behind the version.
LEMMA VersionThrows ==
  ASSUME PlaceInvariant, Delivered, Reading, pc = "version",
         NEW major, major = Skip(at, HTTP), NEW minor, minor = Skip(major + 1, <<"1", ".">>),
         AtEnd(major) \/ AtEnd(minor)
  PROVE  Len(str) < LineEnd \/ Astray
  <1>1. str \in Words /\ Len(str) \in Nat /\ at \in 1 .. Len(str) + 1 /\ at > 1 /\ str[at - 1] \in Blank
    BY DEF PlaceInvariant, Typed, Words, Reading
  <1>2. PICK W : W = Wire(sent)
    OBVIOUS
  <1>3. PICK s, e \in Nat : s = PathStart /\ e = PathEnd /\ LineEnd = e + 8 /\ Marked(W, s, e)
    BY <1>2, Landmarks, Zenon DEF Delivered
  <1>4. /\ W \in Words /\ Len(W) \in Nat /\ Len(W) >= e + 10 /\ s \in 5 .. 9 /\ e > s
        /\ (\A k \in e + 1 .. e + 8 : W[k] \notin Blank) /\ (\A k \in 1 .. 5 : W[e + k] = HTTP[k]) /\ W[e + 7] = "."
    BY <1>3 DEF Marked, Words
  <1>5. HTTP \in Words /\ Len(HTTP) = 5
    BY HTTPWord
  <1>6. PICK word \in Words : word = <<"1", ".">> /\ Len(word) = 2 /\ word[1] = "1"
    BY VersionMarks
  <1>7. major \in Nat \ {0} /\ major <= at + 5
    <2>1. at \in Nat \ {0} /\ Len(HTTP) > 0
      BY <1>1, <1>5
    <2>2. Skip(at, HTTP) \in Nat \ {0} /\ Skip(at, HTTP) <= at + Len(HTTP)
      BY <1>1, <1>5, <2>1, SkipInside
    <2> QED BY <1>5, <2>2
  <1>8. minor = Skip(major + 1, word)
    BY <1>6, Zenon
  <1>9. minor \in Nat \ {0} /\ minor <= major + 3 /\ (minor = major + 1 \/ StartsWith(major + 1, word))
    <2>1. major + 1 \in Nat \ {0} /\ Len(word) > 0
      BY <1>6, <1>7
    <2>2. /\ Skip(major + 1, word) \in Nat \ {0} /\ Skip(major + 1, word) <= major + 1 + Len(word)
          /\ Skip(major + 1, word) # major + 1 => StartsWith(major + 1, word)
      BY <1>1, <2>1, SkipInside
    <2> QED BY <1>6, <1>7, <1>8, <2>2
  <1>10. at + 8 > Len(str)
    <2>1. major > Len(str) \/ minor > Len(str)
      BY DEF AtEnd
    <2>2. at \in Nat /\ Len(str) \in Nat
      BY <1>1
    <2> QED BY ONLY <1>7, <1>9, <2>1, <2>2
  <1>11. ASSUME Len(str) >= e + 8, Clean PROVE FALSE
    <2>1. at = e + 1 \/ (at = e + 2 /\ Len(str) >= e + 10)
      <3>1. at = e + 1 \/ (at = e + 2 /\ Len(str) >= e + 8 + 2)
        BY <1>3, <1>11, Zenon DEF Reading
      <3> QED BY <3>1
    <2>2. at = e + 1 /\ Len(str) = e + 8
      BY <1>1, <1>10, <1>11, <2>1
    <2>3. \A n \in 1 .. Len(str) : str[n] = W[n]
      <3>1. Len(str) # Len(W)
        BY <1>4, <2>2
      <3> QED BY <1>2, <3>1 DEF Delivered, Cut, DamagedAt
    <2>4. StartsWith(at, HTTP)
      <3>1. ASSUME NEW k \in 1 .. Len(HTTP) PROVE str[at + k - 1] = HTTP[k]
        <4>1. k \in 1 .. 5 /\ at + k - 1 = e + k /\ e + k \in 1 .. Len(str)
          BY <1>5, <2>2
        <4> QED BY <1>4, <2>3, <4>1
      <3>2. at \in Nat \ {0} /\ at + Len(HTTP) <= Len(str) + 1
        BY <1>1, <1>5, <2>2
      <3> QED BY <1>1, <1>5, <3>1, <3>2, MeansStarts
    <2>5. major = e + 6
      BY <1>5, <2>2, <2>4 DEF Skip
    <2>6. ~StartsWith(major + 1, word)
      <3> SUFFICES ASSUME StartsWith(major + 1, word) PROVE FALSE
        OBVIOUS
      <3>1. major + 1 \in Nat \ {0} /\ Len(word) > 0
        BY <1>6, <1>7
      <3>2. \A k \in 1 .. Len(word) : str[major + 1 + k - 1] = word[k]
        BY <1>1, <3>1, StartsMeans
      <3>3. str[major + 1] = "1"
        BY <1>6, <1>7, <3>2
      <3>4. str[e + 7] = "."
        BY <1>4, <2>2, <2>3
      <3> QED BY <2>5, <3>3, <3>4
    <2>7. minor = e + 7
      BY <1>9, <2>5, <2>6
    <2> QED BY <2>2, <2>5, <2>7 DEF AtEnd
  <1>12. ASSUME Len(str) >= e + 8, ~Clean PROVE Astray
    <2>1. PICK n \in s .. e : str[n] # W[n]
      BY <1>2, <1>3, <1>12, Zenon DEF Clean
    <2>2. n \in 1 .. Len(str)
      <3>1. n \in Nat /\ n >= 1 /\ n <= e
        BY <1>3, <1>4, <2>1
      <3>2. e <= Len(str)
        BY <1>1, <1>3, <1>12
      <3> QED BY ONLY <1>1, <1>3, <3>1, <3>2
    <2>3. PICK d : Len(str) = Len(W) /\ \A i \in 1 .. Len(str) : i # d => str[i] = W[i]
      BY <1>2, <2>1, <2>2, Zenon DEF Delivered, Cut, DamagedAt
    <2>4. d = n
      BY <2>1, <2>2, <2>3
    <2>5. at - 1 >= Len(str) - 8 /\ at - 1 \in e + 2 .. Len(str)
      BY <1>1, <1>4, <1>10, <2>3
    <2>6. at - 1 \in e + 8 + 1 .. Len(str)
      <3> SUFFICES ASSUME at - 1 < e + 9 PROVE FALSE
        BY <1>1, <2>5
      <3>1. at - 1 \in e + 1 .. e + 8 /\ at - 1 \in 1 .. Len(str) /\ at - 1 # d
        BY <1>1, <2>4, <2>5
      <3>2. str[at - 1] = W[at - 1] /\ W[at - 1] \notin Blank
        BY <1>4, <2>3, <3>1
      <3> QED BY <1>1, <3>2
    <2>7. \E i \in PathStart .. PathEnd : str[i] # Wire(sent)[i]
      BY <1>2, <1>3, <2>1, Zenon
    <2>8. \E i \in LineEnd + 1 .. Len(str) : i >= Len(str) - 8 /\ str[i] \in Blank
      <3>1. \E i \in e + 8 + 1 .. Len(str) : i >= Len(str) - 8 /\ str[i] \in Blank
        BY <1>1, <2>5, <2>6
      <3> QED BY <1>3, <3>1, Zenon
    <2> QED BY <2>7, <2>8 DEF Astray
  <1>13. Len(str) < e + 8 \/ Len(str) >= e + 8
    BY <1>1
  <1> QED BY <1>3, <1>11, <1>12, <1>13, Zenon


\* What was sent and what arrived stay.
LEMMA DeliveredStays ==
  ASSUME Delivered, sent' = sent, str' = str
  PROVE  /\ Delivered' /\ LineEnd' = LineEnd /\ PathEnd' = PathEnd
         /\ Clean' <=> Clean
         /\ Astray' <=> Astray
  <1>1. Delivered'
    BY DEF Delivered, Cut, DamagedAt
  <1>2. LineEnd' = LineEnd /\ PathEnd' = PathEnd /\ PathStart' = PathStart
    BY DEF LineEnd, PathEnd, PathStart
  <1>3. (Clean' <=> Clean) /\ (Astray' <=> Astray)
    BY <1>2 DEF Clean, Astray
  <1> QED BY <1>1, <1>2, <1>3

\* A step that neither throws nor comes to the version.
LEMMA Quiet ==
  ASSUME ThrowInvariant, PlaceInvariant', sent' = sent, str' = str, pc' \notin {"space2", "version"}, outcome' # "throws"
  PROVE  ThrowInvariant'
  <1>1. Delivered'
    BY DeliveredStays DEF ThrowInvariant
  <1> QED BY <1>1 DEF ThrowInvariant, Reading, ThrowsOnlyCut

LEMMA InitThrows ==
  ASSUME Init
  PROVE  ThrowInvariant
  <1>1. PlaceInvariant /\ Delivered
    BY InitPlaced, InitDelivered
  <1> QED BY <1>1 DEF Init, ThrowInvariant, Reading, ThrowsOnlyCut

LEMMA MethodThrows ==
  ASSUME ThrowInvariant, method_string_to_enum
  PROVE  ThrowInvariant'
  <1>1. PlaceInvariant' /\ PlaceInvariant /\ Delivered /\ outcome = "none" /\ at = 1 /\ str \in Words
    BY MethodPlaced DEF ThrowInvariant, PlaceInvariant, Stands, Typed, method_string_to_enum
  <1>2. sent' = sent /\ str' = str /\ pc' \notin {"space2", "version"}
    BY DEF method_string_to_enum, Step, Fail, Finish
  <1>3. CASE outcome' # "throws"
    BY <1>1, <1>2, <1>3, Quiet
  <1>4. CASE outcome' = "throws"
    <2>1. Rest(at) \in {<<>>, <<"P">>}
      BY <1>1, <1>4 DEF method_string_to_enum, Step, Fail, Finish, Unchecked
    <2>2. Len(str) \in {0, 1}
      <3>1. str \in {<<>>, <<"P">>}
        BY <1>1, <2>1, WholeRest
      <3> QED BY <3>1
    <2>3. PICK s, e \in Nat : LineEnd = e + 8 /\ Marked(Wire(sent), s, e)
      BY <1>1, Landmarks, Zenon DEF Delivered
    <2>4. Len(str) < e + 8
      BY <2>2
    <2>5. Len(str) < LineEnd
      BY <2>3, <2>4, Zenon
    <2>6. Len(str') < LineEnd'
      BY <1>1, <1>2, <2>5, DeliveredStays, Zenon
    <2> QED BY <1>1, <1>2, <2>6, DeliveredStays DEF ThrowInvariant, Reading, ThrowsOnlyCut
  <1> QED BY <1>3, <1>4

LEMMA PathThrows ==
  ASSUME ThrowInvariant, next_token
  PROVE  ThrowInvariant'
  <1>1. PlaceInvariant' /\ PlaceInvariant /\ Delivered /\ outcome = "none" /\ pc = "path"
    BY PathPlaced DEF ThrowInvariant, PlaceInvariant, Stands, next_token
  <1>2. sent' = sent /\ str' = str /\ pc' # "version" /\ outcome' # "throws"
    BY <1>1 DEF next_token, Step, Fail, Finish
  <1>3. CASE pc' # "space2"
    BY <1>1, <1>2, <1>3, Quiet
  <1>4. CASE pc' = "space2"
    <2>1. ASSUME Len(str) >= LineEnd, Clean PROVE at' = PathEnd
      <3>1. Find(at, {SP}) # {} /\ Min(Find(at, {SP})) = PathEnd
        BY <1>1, <2>1, PathReached
      <3> QED BY <1>4, <3>1 DEF next_token, Step, Fail, Finish
    <2>2. Len(str') >= LineEnd' /\ Clean' => at' = PathEnd'
      BY <1>1, <1>2, <2>1, DeliveredStays, Zenon
    <2>3. Delivered'
      BY <1>1, <1>2, DeliveredStays
    <2> QED BY <1>1, <1>2, <1>4, <2>2, <2>3 DEF ThrowInvariant, Reading, ThrowsOnlyCut
  <1> QED BY <1>3, <1>4

LEMMA Space2Throws ==
  ASSUME ThrowInvariant, expect_two("space2", "version")
  PROVE  ThrowInvariant'
  <1>1. PlaceInvariant' /\ PlaceInvariant /\ Delivered /\ Reading /\ outcome = "none" /\ pc = "space2"
    BY Space2Placed DEF ThrowInvariant, PlaceInvariant, Stands, expect_two
  <1>2. sent' = sent /\ str' = str /\ pc' # "space2" /\ outcome' # "throws"
    BY <1>1 DEF expect_two, Step, Finish, Unchecked
  <1>3. CASE pc' # "version"
    BY <1>1, <1>2, <1>3, Quiet
  <1>4. CASE pc' = "version"
    <2>1. ~AtEnd(at) /\ str[at] \in Blank /\ at' = Behind(at)
      BY <1>4 DEF expect_two, Step, Finish, Behind
    <2>2. PICK j : j = at'
      OBVIOUS
    <2>3. /\ j \in Nat /\ j > 1 /\ str[j - 1] \in Blank
          /\ Len(str) >= LineEnd /\ Clean => j = PathEnd + 1 \/ (j = PathEnd + 2 /\ Len(str) >= LineEnd + 2)
      <3>1. j = Behind(at)
        BY <2>1, <2>2
      <3> QED BY <1>1, <2>1, <3>1, VersionReached, Zenon
    <2>4. /\ at' > 1 /\ str'[at' - 1] \in Blank
          /\ Len(str') >= LineEnd' /\ Clean' =>
               at' = PathEnd' + 1 \/ (at' = PathEnd' + 2 /\ Len(str') >= LineEnd' + 2)
      BY <1>1, <1>2, <2>2, <2>3, DeliveredStays, Zenon
    <2>5. Delivered'
      BY <1>1, <1>2, DeliveredStays
    <2> QED BY <1>1, <1>2, <1>4, <2>4, <2>5 DEF ThrowInvariant, Reading, ThrowsOnlyCut
  <1> QED BY <1>3, <1>4

LEMMA VersionThrowsOnly ==
  ASSUME ThrowInvariant, version_string_to_enum
  PROVE  ThrowInvariant'
  <1>1. PlaceInvariant' /\ PlaceInvariant /\ Delivered /\ Reading /\ outcome = "none" /\ pc = "version"
    BY VersionPlaced DEF ThrowInvariant, PlaceInvariant, Stands, version_string_to_enum
  <1>2. sent' = sent /\ str' = str /\ pc' \notin {"space2", "version"}
    BY DEF version_string_to_enum, Step, Fail, Finish
  <1>3. CASE outcome' # "throws"
    BY <1>1, <1>2, <1>3, Quiet
  <1>4. CASE outcome' = "throws"
    <2>1. PICK major : major = Skip(at, HTTP)
      OBVIOUS
    <2>2. PICK minor : minor = Skip(major + 1, <<"1", ".">>)
      OBVIOUS
    <2>3. AtEnd(major) \/ AtEnd(minor)
      BY <1>1, <1>4, <2>1, <2>2 DEF version_string_to_enum, Step
    <2>4. Len(str) < LineEnd \/ Astray
      BY <1>1, <2>1, <2>2, <2>3, VersionThrows
    <2>5. Len(str') < LineEnd' \/ Astray'
      BY <1>1, <1>2, <2>4, DeliveredStays, Zenon
    <2> QED BY <1>1, <1>2, <2>5, DeliveredStays DEF ThrowInvariant, Reading, ThrowsOnlyCut
  <1> QED BY <1>3, <1>4

\* The steps that never throw.
LEMMA OthersQuiet ==
  ASSUME ThrowInvariant,
         \/ expect_two("space1", "path") \/ expect_end \/ parse_header \/ HeaderFails \/ SetContent
  PROVE  ThrowInvariant'
  <1>1. PlaceInvariant'
    BY Space1Placed, EndPlaced, HeaderPlaced, HeaderFailsPlaced, ContentPlaced DEF ThrowInvariant
  <1>2. pc # "done" /\ outcome = "none"
    BY DEF ThrowInvariant, PlaceInvariant, Stands, expect_two, expect_end, parse_header, HeaderFails, SetContent
  <1>3. sent' = sent /\ str' = str /\ pc' \notin {"space2", "version"} /\ outcome' # "throws"
    BY <1>2 DEF expect_two, expect_end, parse_header, HeaderFails, SetContent, Step, Fail, Finish, Unchecked
  <1> QED BY <1>1, <1>3, Quiet

\* Behind the string it throws, but then the string ends like a header whose LF is missing.
LEMMA BehindThrows ==
  ASSUME ThrowInvariant, ReadsOn
  PROVE  ThrowInvariant'
  <1>1. PlaceInvariant' /\ PlaceInvariant /\ Delivered
    BY BehindPlaced DEF ThrowInvariant
  <1>2. ~Hardened /\ str # <<>> /\ str[Len(str)] \in {CR, LF}
    <2>1. at = Len(str) + 2 /\ str # <<>> /\ str[Len(str)] \in {CR, LF} /\ Len(str) \in Nat
      BY <1>1 DEF PlaceInvariant, Stands, Typed, ReadsOn, Words
    <2> QED BY <1>1, <2>1 DEF PlaceInvariant, Typed
  <1>3. sent' = sent /\ str' = str /\ Hardened' = Hardened /\ pc' = "done"
    BY <1>1, BehindFails DEF Fail, Finish
  <1>4. Overrun'
    BY <1>2, <1>3 DEF Overrun
  <1> QED BY <1>1, <1>3, <1>4, DeliveredStays DEF ThrowInvariant, Reading, ThrowsOnlyCut

(***************************************************************************)
(* On no message, cut off or damaged anywhere, does the parser throw       *)
(* unless the request line is incomplete, its path has run into the end of *)
(* the body, or a build without checks has read on behind the string.      *)
(***************************************************************************)
THEOREM ThrowsRarely == Spec => []ThrowsOnlyCut
  <1>1. Init => ThrowInvariant
    BY InitThrows
  <1>2. ASSUME ThrowInvariant, [Next]_vars PROVE ThrowInvariant'
    <2>1. CASE UNCHANGED vars
      <3>1. PlaceInvariant'
        BY <1>2, NextPlaced DEF ThrowInvariant
      <3>2. sent' = sent /\ str' = str /\ pc' = pc /\ at' = at /\ outcome' = outcome /\ Hardened' = Hardened
        BY <2>1 DEF vars
      <3> QED BY <3>1, <3>2, <1>2, DeliveredStays DEF ThrowInvariant, Reading, ThrowsOnlyCut, Overrun
    <2> QED BY <1>2, <2>1, MethodThrows, PathThrows, Space2Throws, VersionThrowsOnly, BehindThrows, OthersQuiet DEF Next
  <1>3. ThrowInvariant => ThrowsOnlyCut
    BY DEF ThrowInvariant
  <1> QED BY <1>1, <1>2, <1>3, PTL DEF Spec


-----------------------------------------------------------------------------
(* The lines of the headers.                                               *)

\* The recursion in FlattenSeq defines a function.
LEMMA FlattenDefined ==
  ASSUME NEW s, NEW n \in Nat
  PROVE  \E f : f = [i \in 1 .. n |-> IF i = 1 THEN s[i] ELSE f[i - 1] \o s[i]]
  <1> DEFINE Has(m) == \E f : f = [i \in 1 .. m |-> IF i = 1 THEN s[i] ELSE f[i - 1] \o s[i]]
             T == {m \in Nat : ~Has(m)}
  <1> SUFFICES ASSUME T # {} PROVE FALSE
    OBVIOUS
  <1>1. PICK m \in T : \A y \in T : m <= y
    <2>1. T \subseteq Nat
      OBVIOUS
    <2> HIDE DEF T
    <2> QED BY <2>1, FirstPosition
  <1>2. CASE m = 0
    <2>1. [i \in 1 .. 0 |-> 0] = [i \in 1 .. 0 |-> IF i = 1 THEN s[i] ELSE [j \in 1 .. 0 |-> 0][i - 1] \o s[i]]
      OBVIOUS
    <2>2. Has(0)
      BY <2>1, Zenon
    <2> QED BY <1>2, <2>2, Zenon
  <1>3. CASE m # 0
    <2>1. m - 1 \in Nat /\ m \in Nat /\ ~(m <= m - 1)
      BY <1>3
    <2>2. Has(m - 1)
      BY <1>1, <2>1
    <2>3. PICK f : f = [i \in 1 .. m - 1 |-> IF i = 1 THEN s[i] ELSE f[i - 1] \o s[i]]
      BY <2>2
    <2> DEFINE g == [i \in 1 .. m |-> IF i <= m - 1 THEN f[i] ELSE IF i = 1 THEN s[i] ELSE f[i - 1] \o s[i]]
    <2>4. \A i \in 1 .. m : g[i] = IF i <= m - 1 THEN f[i] ELSE IF i = 1 THEN s[i] ELSE f[i - 1] \o s[i]
      OBVIOUS
    <2>5. \A i \in 1 .. m - 1 : f[i] = IF i = 1 THEN s[i] ELSE f[i - 1] \o s[i]
      BY <2>3
    <2>6. g = [i \in 1 .. m |-> g[i]]
      OBVIOUS
    <2> HIDE DEF g
    <2>7. ASSUME NEW i \in 1 .. m PROVE g[i] = IF i = 1 THEN s[i] ELSE g[i - 1] \o s[i]
      <3>1. i # 1 => i - 1 \in 1 .. m /\ i - 1 <= m - 1 /\ g[i - 1] = f[i - 1]
        BY <2>1, <2>4
      <3>2. i <= m - 1 => i \in 1 .. m - 1
        BY <2>1
      <3> QED BY <2>4, <2>5, <3>1, <3>2
    <2>8. g = [i \in 1 .. m |-> IF i = 1 THEN s[i] ELSE g[i - 1] \o s[i]]
      BY <2>6, <2>7
    <2>9. Has(m)
      BY <2>8
    <2> QED BY <2>9
  <1> QED BY <1>2, <1>3

LEMMA FlattenUnfolds ==
  ASSUME NEW s, NEW n \in Nat \ {0}, n = Len(s)
  PROVE  \E f : /\ FlattenSeq(s) = f[n] /\ f[1] = s[1]
                /\ \A i \in 2 .. n : f[i] = f[i - 1] \o s[i]
  <1> DEFINE g == CHOOSE f : f = [i \in 1 .. Len(s) |-> IF i = 1 THEN s[i] ELSE f[i - 1] \o s[i]]
  <1>1. g = [i \in 1 .. Len(s) |-> IF i = 1 THEN s[i] ELSE g[i - 1] \o s[i]]
    <2>1. \E f : f = [i \in 1 .. Len(s) |-> IF i = 1 THEN s[i] ELSE f[i - 1] \o s[i]]
      BY FlattenDefined
    <2> QED BY <2>1, Zenon
  <1>2. FlattenSeq(s) = g[Len(s)]
    <2>1. Len(s) # 0
      OBVIOUS
    <2> QED BY <2>1, Zenon DEF FlattenSeq
  <1> HIDE DEF g
  <1>3. g[1] = s[1] /\ \A i \in 2 .. n : g[i] = g[i - 1] \o s[i]
    <2>1. \A i \in 1 .. n : g[i] = IF i = 1 THEN s[i] ELSE g[i - 1] \o s[i]
      BY <1>1
    <2>2. 1 \in 1 .. n /\ \A i \in 2 .. n : i \in 1 .. n /\ i # 1
      OBVIOUS
    <2> QED BY ONLY <2>1, <2>2
  <1> QED BY <1>2, <1>3

\* u is the words of s one after the other, the i-th of them from q[i] + 1 on.
Lined(u, s, n, q) ==
  /\ u \in Words /\ q \in [1 .. n + 1 -> Nat] /\ q[1] = 0 /\ q[n + 1] = Len(u)
  /\ \A i \in 1 .. n : /\ q[i + 1] = q[i] + Len(s[i]) /\ q[i + 1] <= Len(u)
                       /\ \A k \in 1 .. Len(s[i]) : u[q[i] + k] = s[i][k]

LEMMA LinedGrows ==
  ASSUME NEW s, NEW n \in Nat, NEW u, NEW q, Lined(u, s, n, q), NEW v, v = u \o s[n + 1],
         \A i \in 1 .. n + 1 : s[i] \in Words
  PROVE  \E r : Lined(v, s, n + 1, r)
  <1>1. PICK w \in Words : w = s[n + 1]
    OBVIOUS
  <1>2. u \in Words /\ q \in [1 .. n + 1 -> Nat] /\ q[1] = 0 /\ q[n + 1] = Len(u)
    BY DEF Lined
  <1>3. Joined(v, u, w)
    BY <1>1, <1>2, Glued, Zenon
  <1>4. PICK l \in Nat : l = Len(u)
    BY <1>2 DEF Words
  <1>5. PICK m \in Nat : m = Len(w)
    BY <1>1 DEF Words
  <1>6. /\ v \in Words /\ Len(v) = l + m
        /\ (\A k \in 1 .. l : v[k] = u[k]) /\ \A k \in 1 .. m : v[l + k] = w[k]
    BY <1>3, <1>4, <1>5, Zenon DEF Joined
  <1> DEFINE r == [i \in 1 .. n + 2 |-> IF i = n + 2 THEN l + m ELSE q[i]]
  <1>7. /\ r \in [1 .. n + 2 -> Nat] /\ r[n + 2] = l + m /\ \A i \in 1 .. n + 1 : r[i] = q[i]
    BY <1>2
  <1> HIDE DEF r
  <1>8. ASSUME NEW i \in 1 .. n
        PROVE  /\ r[i + 1] = r[i] + Len(s[i]) /\ r[i + 1] <= Len(v)
               /\ \A k \in 1 .. Len(s[i]) : v[r[i] + k] = s[i][k]
    <2>1. /\ q[i + 1] = q[i] + Len(s[i]) /\ q[i + 1] <= Len(u)
          /\ \A k \in 1 .. Len(s[i]) : u[q[i] + k] = s[i][k]
      BY DEF Lined
    <2>2. i \in 1 .. n + 1 /\ i + 1 \in 1 .. n + 1 /\ r[i] = q[i] /\ r[i + 1] = q[i + 1]
      BY <1>7
    <2>3. PICK a \in Nat : a = q[i]
      BY <1>2, <2>2
    <2>4. PICK c \in Nat : c = Len(s[i])
      <3>1. s[i] \in Words
        BY <2>2
      <3> QED BY <3>1 DEF Words
    <2>5. a + c <= l /\ q[i + 1] = a + c
      BY <1>4, <2>1, <2>3, <2>4
    <2>6. ASSUME NEW k \in 1 .. c PROVE v[a + k] = s[i][k]
      <3>1. a + k \in 1 .. l
        BY <2>5
      <3>2. u[a + k] = s[i][k]
        BY <2>1, <2>3, <2>4
      <3> QED BY <1>6, <3>1, <3>2
    <2>7. a + c <= l + m
      BY <2>5
    <2> QED BY <1>6, <2>2, <2>3, <2>4, <2>5, <2>6, <2>7
  <1>9. /\ r[n + 1 + 1] = r[n + 1] + Len(s[n + 1]) /\ r[n + 1 + 1] <= Len(v)
        /\ \A k \in 1 .. Len(s[n + 1]) : v[r[n + 1] + k] = s[n + 1][k]
    <2>1. r[n + 1] = l /\ n + 1 + 1 = n + 2
      BY <1>2, <1>4, <1>7
    <2>2. r[n + 1 + 1] = l + m /\ r[n + 1] = l /\ Len(s[n + 1]) = m /\ Len(v) = l + m /\ s[n + 1] = w
      BY <1>1, <1>5, <1>6, <1>7, <2>1, Zenon
    <2>3. l + m <= l + m
      OBVIOUS
    <2>4. \A k \in 1 .. m : v[l + k] = w[k]
      BY <1>6
    <2> QED BY ONLY <2>2, <2>3, <2>4, Zenon
  <1>10. \A i \in 1 .. n + 1 : i \in 1 .. n \/ i = n + 1
    OBVIOUS
  <1>11. r \in [1 .. n + 1 + 1 -> Nat] /\ r[1] = 0 /\ r[n + 1 + 1] = Len(v)
    <2>1. n + 1 + 1 = n + 2 /\ 1 \in 1 .. n + 1
      OBVIOUS
    <2> QED BY <1>2, <1>6, <1>7, <2>1
  <1>12. Lined(v, s, n + 1, r)
    BY <1>6, <1>8, <1>9, <1>10, <1>11, Zenon DEF Lined
  <1> QED BY <1>12

LEMMA FlattenLined ==
  ASSUME NEW s \in Seq(Words)
  PROVE  \E q : Lined(FlattenSeq(s), s, Len(s), q)
  <1>1. PICK n \in Nat : n = Len(s)
    OBVIOUS
  <1>2. \A i \in 1 .. n : s[i] \in Words
    BY <1>1
  <1>3. CASE n = 0
    <2>1. FlattenSeq(s) = <<>>
      <3>1. s = <<>> /\ Len(s) = 0
        BY <1>1, <1>3, EmptySeq
      <3>2. FlattenSeq(s) = s
        BY <3>1, Zenon DEF FlattenSeq
      <3> QED BY <3>1, <3>2
    <2>2. <<>> \in Words /\ Len(<<>>) = 0
      BY DEF Words
    <2> DEFINE q == [i \in 1 .. 1 |-> 0]
    <2>3. q \in [1 .. 0 + 1 -> Nat] /\ q[1] = 0 /\ q[0 + 1] = 0
      OBVIOUS
    <2> HIDE DEF q
    <2>4. Lined(<<>>, s, 0, q)
      BY <2>2, <2>3 DEF Lined
    <2> QED BY <1>1, <1>3, <2>1, <2>4
  <1>4. CASE n # 0
    <2>1. PICK f : /\ FlattenSeq(s) = f[n] /\ f[1] = s[1]
                   /\ \A i \in 2 .. n : f[i] = f[i - 1] \o s[i]
      <3>1. n \in Nat \ {0}
        BY <1>4
      <3> QED BY <1>1, <3>1, FlattenUnfolds, Zenon
    <2> DEFINE T == {m \in 1 .. n : ~\E q : Lined(f[m], s, m, q)}
    <2>2. SUFFICES ASSUME T # {} PROVE FALSE
      <3>1. n \in 1 .. n
        BY <1>4
      <3> QED BY <1>1, <2>1, <3>1
    <2>3. PICK m \in T : \A y \in T : m <= y
      <3>1. T \subseteq Nat
        OBVIOUS
      <3> HIDE DEF T
      <3> QED BY <2>2, <3>1, FirstPosition
    <2>4. CASE m = 1
      <3> DEFINE q == [i \in 1 .. 2 |-> IF i = 1 THEN 0 ELSE Len(s[1])]
      <3>1. PICK w \in Words : w = s[1]
        BY <1>2, <1>4
      <3>2. PICK l \in Nat : l = Len(w)
        BY <3>1 DEF Words
      <3>3. q \in [1 .. 1 + 1 -> Nat] /\ q[1] = 0 /\ q[1 + 1] = l
        BY <3>1, <3>2
      <3> HIDE DEF q
      <3>4. \A k \in 1 .. l : w[q[1] + k] = w[k]
        BY <3>3
      <3>5. Lined(w, s, 1, q)
        BY <3>1, <3>2, <3>3, <3>4 DEF Lined
      <3> QED BY <2>1, <2>4, <3>1, <3>5
    <2>5. CASE m # 1
      <3>1. PICK p \in 1 .. n : p + 1 = m /\ p \notin T
        <4>1. m - 1 \in 1 .. n /\ m - 1 + 1 = m /\ ~(m <= m - 1)
          BY <2>5
        <4> QED BY <2>3, <4>1
      <3>2. PICK q : Lined(f[p], s, p, q)
        BY <3>1
      <3>3. f[p + 1] = f[p] \o s[p + 1]
        <4>1. PICK t \in 2 .. n : t = p + 1 /\ t - 1 = p
          BY <3>1
        <4>2. f[t] = f[t - 1] \o s[t]
          BY <2>1, Zenon
        <4> QED BY <4>1, <4>2, Zenon
      <3>4. \A i \in 1 .. p + 1 : s[i] \in Words
        BY <1>2, <3>1
      <3>5. \E r : Lined(f[p + 1], s, p + 1, r)
        <4>1. p \in Nat
          OBVIOUS
        <4> QED BY <3>2, <3>3, <3>4, <4>1, LinedGrows, Zenon
      <3> QED BY <3>1, <3>5
    <2> QED BY <2>4, <2>5
  <1> QED BY <1>3, <1>4


\* A header with name K and value V stands in W from a on, its colon at n and its line end at c.
Headed(W, K, V, a, n, c) ==
  /\ K \in Words /\ V \in Words /\ a \in Nat \ {0} /\ n \in Nat /\ c \in Nat
  /\ n = a + Len(K) /\ c = n + 2 + Len(V)
  /\ \A k \in 1 .. Len(K) : W[a + k - 1] = K[k]
  /\ W[n] = ":" /\ W[n + 1] = SP
  /\ \A k \in 1 .. Len(V) : W[n + 1 + k] = V[k]
  /\ W[c] = CR /\ W[c + 1] = LF

LEMMA LineHeaded ==
  ASSUME NEW h, h.key \in Words, h.value \in Words
  PROVE  /\ HeaderLine(h) \in Words
         /\ \E n, c \in Nat : Headed(HeaderLine(h), h.key, h.value, 1, n, c) /\ Len(HeaderLine(h)) = c + 1
  <1>1. PICK K \in Words : K = h.key
    OBVIOUS
  <1>2. PICK V \in Words : V = h.value
    OBVIOUS
  <1>3. PICK colon \in Words : colon = <<":", SP>> /\ Len(colon) = 2 /\ colon[1] = ":" /\ colon[2] = SP
    <2>1. ":" \in Char /\ SP \in Char
      BY SentAssumption DEF Letters
    <2>2. <<":", SP>> \in Words
      BY <2>1 DEF Words
    <2>3. Len(<<":", SP>>) = 2 /\ <<":", SP>>[1] = ":" /\ <<":", SP>>[2] = SP
      OBVIOUS
    <2> QED BY <2>2, <2>3, Zenon
  <1>4. PICK x \in Nat : x = Len(K)
    BY DEF Words
  <1>5. PICK y \in Nat : y = Len(V)
    BY DEF Words
  <1>6. PICK u1 : u1 = K \o colon
    OBVIOUS
  <1>7. PICK u2 : u2 = u1 \o V
    OBVIOUS
  <1>8. PICK u : u = u2 \o CRLF
    OBVIOUS
  <1>9. HeaderLine(h) = u
    BY <1>1, <1>2, <1>3, <1>6, <1>7, <1>8, Zenon DEF HeaderLine
  <1>10. Joined(u1, K, colon) /\ u1 \in Words
    BY <1>6, Glued, Zenon
  <1>11. Joined(u2, u1, V) /\ u2 \in Words
    BY <1>7, <1>10, Glued, Zenon
  <1>12. Joined(u, u2, CRLF) /\ u \in Words
    BY <1>8, <1>11, Characters, Glued, Zenon
  <1>13. /\ Len(u1) = x + 2 /\ (\A k \in 1 .. x : u1[k] = K[k])
         /\ u1[x + 1] = ":" /\ u1[x + 2] = SP
    <2>1. Len(u1) = x + 2 /\ (\A k \in 1 .. x : u1[k] = K[k]) /\ \A k \in 1 .. 2 : u1[x + k] = colon[k]
      BY <1>3, <1>4, <1>10 DEF Joined
    <2> QED BY <1>3, <2>1
  <1>14. /\ Len(u2) = x + 2 + y /\ (\A k \in 1 .. x + 2 : u2[k] = u1[k])
         /\ \A k \in 1 .. y : u2[x + 2 + k] = V[k]
    BY <1>5, <1>11, <1>13 DEF Joined
  <1>15. /\ Len(u) = x + y + 4 /\ (\A k \in 1 .. x + 2 + y : u[k] = u2[k])
         /\ u[x + y + 3] = CR /\ u[x + y + 4] = LF
    <2>1. /\ Len(u) = x + 2 + y + 2 /\ (\A k \in 1 .. x + 2 + y : u[k] = u2[k])
          /\ \A k \in 1 .. 2 : u[x + 2 + y + k] = CRLF[k]
      BY <1>12, <1>14, Characters DEF Joined
    <2>2. u[x + 2 + y + 1] = CRLF[1] /\ u[x + 2 + y + 2] = CRLF[2]
      BY <2>1
    <2>3. x + 2 + y + 1 = x + y + 3 /\ x + 2 + y + 2 = x + y + 4
      OBVIOUS
    <2> QED BY <2>1, <2>2, <2>3, Characters
  <1>16. PICK n \in Nat : n = 1 + x
    OBVIOUS
  <1>17. PICK c \in Nat : c = n + 2 + y
    OBVIOUS
  <1>18. ASSUME NEW k \in 1 .. x PROVE u[1 + k - 1] = K[k]
    <2>1. 1 + k - 1 = k /\ k \in 1 .. x + 2 /\ k \in 1 .. x + 2 + y
      OBVIOUS
    <2> QED BY <1>13, <1>14, <1>15, <2>1
  <1>19. u[n] = ":" /\ u[n + 1] = SP
    <2>1. n = x + 1 /\ n + 1 = x + 2 /\ n \in 1 .. x + 2 /\ n + 1 \in 1 .. x + 2
          /\ n \in 1 .. x + 2 + y /\ n + 1 \in 1 .. x + 2 + y
      BY <1>16
    <2> QED BY <1>13, <1>14, <1>15, <2>1
  <1>20. ASSUME NEW k \in 1 .. y PROVE u[n + 1 + k] = V[k]
    <2>1. n + 1 + k = x + 2 + k /\ x + 2 + k \in 1 .. x + 2 + y
      BY <1>16
    <2> QED BY <1>14, <1>15, <2>1
  <1>21. u[c] = CR /\ u[c + 1] = LF /\ Len(u) = c + 1
    BY <1>15, <1>16, <1>17
  <1>22. Headed(u, K, V, 1, n, c)
    BY <1>4, <1>5, <1>16, <1>17, <1>18, <1>19, <1>20, <1>21 DEF Headed
  <1> QED BY <1>1, <1>2, <1>9, <1>12, <1>21, <1>22

\* A header found in one word is found where another contains that word.
LEMMA HeadedMoves ==
  ASSUME NEW u, NEW K, NEW V, NEW n \in Nat, NEW c \in Nat, Headed(u, K, V, 1, n, c),
         NEW W, NEW d \in Nat, \A k \in 1 .. c + 1 : W[d + k] = u[k]
  PROVE  Headed(W, K, V, d + 1, d + n, d + c)
  <1>1. PICK x \in Nat : x = Len(K)
    BY DEF Headed, Words
  <1>2. PICK y \in Nat : y = Len(V)
    BY DEF Headed, Words
  <1>3. n = 1 + x /\ c = n + 2 + y
    BY <1>1, <1>2, Zenon DEF Headed
  <1>4. /\ (\A k \in 1 .. x : u[1 + k - 1] = K[k]) /\ u[n] = ":" /\ u[n + 1] = SP
        /\ (\A k \in 1 .. y : u[n + 1 + k] = V[k]) /\ u[c] = CR /\ u[c + 1] = LF
    BY <1>1, <1>2, Zenon DEF Headed
  <1>5. ASSUME NEW k \in 1 .. x PROVE W[d + 1 + k - 1] = K[k]
    <2>1. d + 1 + k - 1 = d + k /\ 1 + k - 1 = k /\ k \in 1 .. c + 1
      BY <1>3
    <2> QED BY <1>4, <2>1
  <1>6. W[d + n] = ":" /\ W[d + n + 1] = SP /\ W[d + c] = CR /\ W[d + c + 1] = LF
    <2>1. n \in 1 .. c + 1 /\ n + 1 \in 1 .. c + 1 /\ c \in 1 .. c + 1 /\ c + 1 \in 1 .. c + 1
          /\ d + n + 1 = d + (n + 1) /\ d + c + 1 = d + (c + 1)
      BY <1>3
    <2> QED BY <1>4, <2>1
  <1>7. ASSUME NEW k \in 1 .. y PROVE W[d + n + 1 + k] = V[k]
    <2>1. d + n + 1 + k = d + (n + 1 + k) /\ n + 1 + k \in 1 .. c + 1
      BY <1>3
    <2> QED BY <1>4, <2>1
  <1>8. d + 1 \in Nat \ {0} /\ d + n \in Nat /\ d + c \in Nat /\ d + n = d + 1 + x /\ d + c = d + n + 2 + y
    BY <1>3
  <1>9. K \in Words /\ V \in Words
    BY DEF Headed
  <1> QED BY <1>1, <1>2, <1>5, <1>6, <1>7, <1>8, <1>9 DEF Headed


\* W is a message with headers H and body B: the request line ends at l, the i-th header line begins
\* at p[i], and all that precedes the body ends at h.
Charted(W, H, B, l, p, h) ==
  /\ W \in Words /\ B \in Words /\ Len(H) \in Nat /\ l \in Nat /\ h \in Nat
  /\ p \in [1 .. Len(H) + 1 -> Nat] /\ p[1] = l + 3 /\ h = p[Len(H) + 1] + 1
  /\ \A i \in 1 .. Len(H) :
       /\ \E n, c \in Nat : Headed(W, H[i].key, H[i].value, p[i], n, c) /\ p[i + 1] = c + 2
       /\ p[i + 1] <= p[Len(H) + 1]
  /\ W[l + 1] = CR /\ W[l + 2] = LF /\ W[h - 1] = CR /\ W[h] = LF
  /\ Len(W) = h + Len(B) /\ \A k \in 1 .. Len(B) : W[h + k] = B[k]

LEMMA LineLength ==
  ASSUME sent \in Sent
  PROVE  RequestLine(sent) \in Words /\ Len(RequestLine(sent)) = LineEnd /\ LineEnd \in Nat
  <1>1. PICK A, P, V : A = Spell[sent.method] /\ P = sent.path /\ V = HTTP_VERSION_STRINGS[sent.version]
    OBVIOUS
  <1>2. A \in Words /\ P \in Words /\ V \in Words
    BY <1>1, WireIs, Zenon
  <1>3. PICK a \in Nat : a = Len(A)
    BY <1>2 DEF Words
  <1>4. PICK l \in Nat : l = Len(P)
    BY <1>2 DEF Words
  <1>5. PICK v \in Nat : v = Len(V)
    BY <1>2 DEF Words
  <1>6. PICK s1 : s1 = A \o <<SP>>
    OBVIOUS
  <1>7. PICK s2 : s2 = s1 \o P
    OBVIOUS
  <1>8. PICK s3 : s3 = s2 \o <<SP>>
    OBVIOUS
  <1>9. PICK s4 : s4 = s3 \o V
    OBVIOUS
  <1>10. RequestLine(sent) = s4
    BY <1>1, <1>6, <1>7, <1>8, <1>9, Zenon DEF RequestLine
  <1>11. Joined(s1, A, <<SP>>) /\ s1 \in Words
    BY <1>2, <1>6, Characters, Glued, Zenon
  <1>12. Joined(s2, s1, P) /\ s2 \in Words
    BY <1>2, <1>7, <1>11, Glued, Zenon
  <1>13. Joined(s3, s2, <<SP>>) /\ s3 \in Words
    BY <1>8, <1>12, Characters, Glued, Zenon
  <1>14. Joined(s4, s3, V) /\ s4 \in Words
    BY <1>2, <1>9, <1>13, Glued, Zenon
  <1>15. Len(<<SP>>) = 1
    OBVIOUS
  <1>16. Len(s1) = a + 1
    BY <1>3, <1>11, <1>15, Zenon DEF Joined
  <1>17. Len(s2) = a + 1 + l
    BY <1>4, <1>12, <1>16, Zenon DEF Joined
  <1>18. Len(s3) = a + 1 + l + 1
    BY <1>13, <1>15, <1>17, Zenon DEF Joined
  <1>19. Len(s4) = a + 1 + l + 1 + v
    BY <1>5, <1>14, <1>18, Zenon DEF Joined
  <1>20. LineEnd = a + 2 + l + v
    BY <1>1, <1>3, <1>4, <1>5, Zenon DEF LineEnd, PathEnd, PathStart
  <1> QED BY <1>10, <1>14, <1>19, <1>20

LEMMA LinesAre ==
  ASSUME NEW r, Separable(r), NEW H, H = r.headers
  PROVE  /\ H \in Seq([key : Seq(Char \ {SP, CR, LF}), value : Seq(Char \ {CR, LF})])
         /\ \A i \in 1 .. Len(H) : H[i].key \in Words /\ H[i].value \in Words
         /\ [i \in DOMAIN H |-> HeaderLine(H[i])] \in Seq(Words)
         /\ Len([i \in DOMAIN H |-> HeaderLine(H[i])]) = Len(H)
  <1>1. H \in Seq([key : Seq(Char \ {SP, CR, LF}), value : Seq(Char \ {CR, LF})])
    BY DEF Separable
  <1>2. Len(H) \in Nat /\ DOMAIN H = 1 .. Len(H)
    BY <1>1
  <1>3. ASSUME NEW i \in 1 .. Len(H) PROVE H[i].key \in Words /\ H[i].value \in Words
    <2>1. \A g \in [key : Seq(Char \ {SP, CR, LF}), value : Seq(Char \ {CR, LF})] :
            g.key \in Seq(Char \ {SP, CR, LF}) /\ g.value \in Seq(Char \ {CR, LF})
      OBVIOUS
    <2>2. PICK K, V : K = H[i].key /\ V = H[i].value
      OBVIOUS
    <2>3. K \in Seq(Char \ {SP, CR, LF}) /\ V \in Seq(Char \ {CR, LF})
      <3>1. PICK G : G = [key : Seq(Char \ {SP, CR, LF}), value : Seq(Char \ {CR, LF})]
        OBVIOUS
      <3>2. H \in Seq(G)
        BY <1>1, <3>1, Zenon
      <3>3. H[i] \in G
        BY ONLY <3>2, i \in 1 .. Len(H)
      <3> QED BY <2>1, <2>2, <3>1, <3>3, Zenon
    <2>4. K \in Words /\ V \in Words
      BY <2>3 DEF Words
    <2> QED BY <2>2, <2>4
  <1>4. \A i \in 1 .. Len(H) : HeaderLine(H[i]) \in Words
    BY <1>3, LineHeaded, Zenon
  <1>5. PICK s : s = [i \in 1 .. Len(H) |-> HeaderLine(H[i])]
    OBVIOUS
  <1>6. s \in Seq(Words) /\ Len(s) = Len(H)
    BY <1>2, <1>4, <1>5
  <1> QED BY <1>1, <1>2, <1>3, <1>5, <1>6

LEMMA WireCharted ==
  ASSUME sent \in Sent, Separable(sent)
  PROVE  \E p : Charted(Wire(sent), sent.headers, sent.body, LineEnd, p, Len(WireHead(sent)))
  <1>1. PICK R, H, F, B, s : /\ R = RequestLine(sent) /\ H = sent.headers /\ F = HeaderLines(sent) /\ B = sent.body
                             /\ s = [i \in DOMAIN H |-> HeaderLine(H[i])]
    OBVIOUS
  <1>2. PICK l \in Nat : l = LineEnd
    BY LineLength
  <1>3. R \in Words /\ Len(R) = l
    BY <1>1, <1>2, LineLength, Zenon
  <1>4. B \in Words
    BY <1>1, SentAssumption DEF Words
  <1>5. PICK N \in Nat : N = Len(H)
    BY <1>1 DEF Separable
  <1>6. s \in Seq(Words) /\ Len(s) = N
    BY <1>1, <1>5, LinesAre, Zenon
  <1>7. F = FlattenSeq(s)
    BY <1>1, Zenon DEF HeaderLines
  <1>8. PICK q : Lined(F, s, N, q)
    BY <1>6, <1>7, FlattenLined, Zenon
  <1>9. F \in Words /\ q \in [1 .. N + 1 -> Nat] /\ q[1] = 0 /\ q[N + 1] = Len(F)
    BY <1>8 DEF Lined
  <1>10. PICK f \in Nat : f = Len(F)
    BY <1>9 DEF Words
  <1>11. PICK b \in Nat : b = Len(B)
    BY <1>4 DEF Words
  <1>12. PICK t1 : t1 = R \o CRLF
    OBVIOUS
  <1>13. PICK t2 : t2 = t1 \o F
    OBVIOUS
  <1>14. PICK t3 : t3 = t2 \o CRLF
    OBVIOUS
  <1>15. PICK W : W = t3 \o B
    OBVIOUS
  <1>16. WireHead(sent) = t3 /\ Wire(sent) = W
    BY <1>1, <1>12, <1>13, <1>14, <1>15, Zenon DEF WireHead, Wire
  <1>17. Joined(t1, R, CRLF) /\ t1 \in Words
    BY <1>3, <1>12, Characters, Glued, Zenon
  <1>18. Joined(t2, t1, F) /\ t2 \in Words
    BY <1>9, <1>13, <1>17, Glued, Zenon
  <1>19. Joined(t3, t2, CRLF) /\ t3 \in Words
    BY <1>14, <1>18, Characters, Glued, Zenon
  <1>20. Joined(W, t3, B) /\ W \in Words
    BY <1>4, <1>15, <1>19, Glued, Zenon
  <1>21. Len(t1) = l + 2 /\ t1[l + 1] = CR /\ t1[l + 2] = LF
    <2>1. Len(t1) = l + 2 /\ \A k \in 1 .. 2 : t1[l + k] = CRLF[k]
      BY <1>3, <1>17, Characters DEF Joined
    <2> QED BY <2>1, Characters
  <1>22. /\ Len(t2) = l + 2 + f /\ (\A k \in 1 .. l + 2 : t2[k] = t1[k])
         /\ \A k \in 1 .. f : t2[l + 2 + k] = F[k]
    BY <1>10, <1>18, <1>21 DEF Joined
  <1>23. /\ Len(t3) = l + f + 4 /\ (\A k \in 1 .. l + 2 + f : t3[k] = t2[k])
         /\ t3[l + f + 3] = CR /\ t3[l + f + 4] = LF
    <2>1. /\ Len(t3) = l + 2 + f + 2 /\ (\A k \in 1 .. l + 2 + f : t3[k] = t2[k])
          /\ \A k \in 1 .. 2 : t3[l + 2 + f + k] = CRLF[k]
      BY <1>19, <1>22, Characters DEF Joined
    <2>2. t3[l + 2 + f + 1] = CRLF[1] /\ t3[l + 2 + f + 2] = CRLF[2]
      BY <2>1
    <2>3. l + 2 + f + 1 = l + f + 3 /\ l + 2 + f + 2 = l + f + 4
      OBVIOUS
    <2> QED BY <2>1, <2>2, <2>3, Characters
  <1>24. PICK h \in Nat : h = l + f + 4
    OBVIOUS
  <1>25. /\ Len(W) = h + b /\ (\A k \in 1 .. h : W[k] = t3[k]) /\ \A k \in 1 .. b : W[h + k] = B[k]
    BY <1>11, <1>20, <1>23, <1>24 DEF Joined
  <1>26. W[l + 1] = CR /\ W[l + 2] = LF
    <2>1. l + 1 \in 1 .. l + 2 /\ l + 2 \in 1 .. l + 2 /\ l + 1 \in 1 .. l + 2 + f /\ l + 2 \in 1 .. l + 2 + f
          /\ l + 1 \in 1 .. h /\ l + 2 \in 1 .. h
      BY <1>24
    <2> QED BY <1>21, <1>22, <1>23, <1>25, <2>1
  <1>27. W[h - 1] = CR /\ W[h] = LF
    <2>1. h - 1 = l + f + 3 /\ h - 1 \in 1 .. h /\ h \in 1 .. h
      BY <1>24
    <2> QED BY <1>23, <1>24, <1>25, <2>1
  <1>28. ASSUME NEW k \in 1 .. f PROVE W[l + 2 + k] = F[k]
    <2>1. l + 2 + k \in 1 .. l + 2 + f /\ l + 2 + k \in 1 .. h
      BY <1>24
    <2> QED BY <1>22, <1>23, <1>25, <2>1
  <1> DEFINE p == [i \in 1 .. N + 1 |-> l + 3 + q[i]]
  <1>29. /\ p \in [1 .. N + 1 -> Nat] /\ p[1] = l + 3 /\ h = p[N + 1] + 1
         /\ \A i \in 1 .. N + 1 : p[i] = l + 3 + q[i]
    <2>1. p \in [1 .. N + 1 -> Nat] /\ \A i \in 1 .. N + 1 : p[i] = l + 3 + q[i]
      BY <1>9
    <2>2. 1 \in 1 .. N + 1 /\ N + 1 \in 1 .. N + 1
      OBVIOUS
    <2> HIDE DEF p
    <2>3. p[1] = l + 3 + 0 /\ p[N + 1] = l + 3 + f
      BY <1>9, <1>10, <2>1, <2>2
    <2> QED BY <1>24, <2>1, <2>3
  <1> HIDE DEF p
  <1>30. ASSUME NEW i \in 1 .. N
         PROVE  /\ \E n, c \in Nat : Headed(W, H[i].key, H[i].value, p[i], n, c) /\ p[i + 1] = c + 2
                /\ p[i + 1] <= p[N + 1]
    <2>1. i \in 1 .. N + 1 /\ i + 1 \in 1 .. N + 1 /\ N + 1 \in 1 .. N + 1
      OBVIOUS
    <2>2. PICK d \in Nat : d = q[i]
      BY <1>9, <2>1
    <2>3. PICK u : u = HeaderLine(H[i]) /\ u = s[i]
      <3>1. i \in DOMAIN H
        BY <1>1, <1>5 DEF Separable
      <3> QED BY <1>1, <3>1, Zenon
    <2>4. H[i].key \in Words /\ H[i].value \in Words
      BY <1>1, <1>5, LinesAre, Zenon
    <2>5. PICK n, c \in Nat : Headed(u, H[i].key, H[i].value, 1, n, c) /\ Len(u) = c + 1
      BY <2>3, <2>4, LineHeaded, Zenon
    <2>6. q[i + 1] = d + (c + 1) /\ q[i + 1] <= f /\ \A k \in 1 .. c + 1 : F[d + k] = u[k]
      BY <1>8, <1>10, <2>2, <2>3, <2>5, Zenon DEF Lined
    <2>7. ASSUME NEW k \in 1 .. c + 1 PROVE W[l + 2 + d + k] = u[k]
      <3>1. d + k \in 1 .. f /\ l + 2 + (d + k) = l + 2 + d + k
        BY <2>6
      <3> QED BY <1>28, <2>6, <3>1
    <2>8. Headed(W, H[i].key, H[i].value, l + 2 + d + 1, l + 2 + d + n, l + 2 + d + c)
      <3>1. PICK x \in Nat : x = l + 2 + d
        OBVIOUS
      <3>2. \A k \in 1 .. c + 1 : W[x + k] = u[k]
        BY <2>7, <3>1
      <3>3. Headed(W, H[i].key, H[i].value, x + 1, x + n, x + c)
        BY <2>5, <3>2, HeadedMoves, Zenon
      <3> QED BY <3>1, <3>3, Zenon
    <2>9. p[i] = l + 2 + d + 1 /\ p[i + 1] = l + 2 + d + c + 2 /\ p[i + 1] <= p[N + 1]
      <3>1. p[i] = l + 3 + d /\ p[i + 1] = l + 3 + (d + (c + 1)) /\ p[N + 1] = l + 3 + f
        BY <1>9, <1>10, <1>29, <2>1, <2>2, <2>6
      <3>2. d + (c + 1) <= f
        BY <2>6
      <3> QED BY <3>1, <3>2
    <2>10. l + 2 + d + n \in Nat /\ l + 2 + d + c \in Nat
      OBVIOUS
    <2> QED BY <2>8, <2>9, <2>10, Zenon
  <1>31. Charted(W, H, B, l, p, h)
    BY <1>4, <1>5, <1>11, <1>20, <1>25, <1>26, <1>27, <1>29, <1>30, Zenon DEF Charted
  <1>32. Len(t3) = h
    BY <1>23, <1>24
  <1> QED BY <1>1, <1>2, <1>16, <1>31, <1>32, Zenon


-----------------------------------------------------------------------------
(* What is read of a message that was not damaged.                         *)

\* What the parser finds in str, L characters long, of a message whose path is from s on, up to the
\* blank at e, and whose headers end at h.
Shows(L, s, e, h) ==
  /\ s \in 5 .. 9 /\ e > s /\ h >= e + 12 /\ Len(str) = L
  /\ L >= s - 1 => str[s - 1] = SP
  /\ Len(sent.path) = e - s
  /\ \A k \in s .. e - 1 : k <= L => str[k] \notin {SP, HT, CR, LF} /\ str[k] = sent.path[k - s + 1]
  /\ e <= L => str[e] = SP
  /\ \A k \in 1 .. 8 : e + k <= L => str[e + k] \notin {SP, HT, CR, LF}
  /\ \A k \in 1 .. 5 : e + k <= L => str[e + k] = HTTP[k]
  /\ e + 6 <= L => (str[e + 6] = "2" <=> sent.version = "HTTP_2_0")
  /\ e + 7 <= L => str[e + 7] = "."
  /\ e + 8 <= L => str[e + 8] \in {"0", "1"} /\ (str[e + 8] = "1" <=> sent.version = "HTTP_1_1")
  /\ e + 9 <= L => str[e + 9] = CR
  /\ e + 10 <= L => str[e + 10] = LF

\* The path that was sent, as the parser needs it.
LEMMA PathSeparable ==
  ASSUME NEW r, Separable(r)
  PROVE  r.path \in Words /\ \A k \in 1 .. Len(r.path) : r.path[k] \notin {SP, HT, CR, LF}
  <1>1. PICK P : P = r.path
    OBVIOUS
  <1>2. P \in Seq(Char \ {SP, HT, CR, LF})
    BY <1>1 DEF Separable
  <1>3. P \in Words /\ \A k \in 1 .. Len(P) : P[k] \notin {SP, HT, CR, LF}
    <2>1. Len(P) \in Nat /\ \A k \in 1 .. Len(P) : P[k] \in Char \ {SP, HT, CR, LF}
      BY <1>2
    <2>2. P \in Words
      BY <1>2 DEF Words
    <2> QED BY <2>1, <2>2
  <1> QED BY <1>1, <1>3, Zenon

LEMMA Surveyed ==
  ASSUME sent \in Sent, Separable(sent), Cut, str \in Words
  PROVE  \E L, s, e, h \in Nat :
           /\ s = PathStart /\ e = PathEnd /\ LineEnd = e + 8 /\ h = Len(WireHead(sent))
           /\ Shows(L, s, e, h)
  <1>1. PICK W, A, P, V : W = Wire(sent) /\ A = Spell[sent.method] /\ P = sent.path /\ V = HTTP_VERSION_STRINGS[sent.version]
    OBVIOUS
  <1>2. Laid(W, A, P, V)
    BY <1>1, WireLaid, Zenon
  <1>3. PICK a \in 3 .. 7 : a = Len(A)
    BY <1>2, Zenon DEF Laid
  <1>4. PICK l \in Nat \ {0} : l = Len(P)
    BY <1>2, Zenon DEF Laid
  <1>5. PICK L \in Nat : L = Len(str)
    BY DEF Words
  <1>6. \A k \in 1 .. L : str[k] = W[k]
    BY <1>1, <1>5, Zenon DEF Cut
  <1>7. PICK s \in Nat : s = a + 2
    OBVIOUS
  <1>8. PICK e \in Nat : e = s + l
    OBVIOUS
  <1>9. s = PathStart /\ e = PathEnd
    BY <1>1, <1>3, <1>4, <1>7, <1>8, Zenon DEF PathStart, PathEnd
  <1>10. LineEnd = e + 8
    <2>1. Len(V) = 8
      BY <1>2 DEF Laid
    <2> QED BY <1>1, <1>9, <2>1, Zenon DEF LineEnd
  <1>11. PICK h \in Nat : h = Len(WireHead(sent)) /\ h >= e + 12
    <2>1. PICK p : Charted(Wire(sent), sent.headers, sent.body, LineEnd, p, Len(WireHead(sent)))
      BY WireCharted
    <2>2. PICK h, N \in Nat : h = Len(WireHead(sent)) /\ N = Len(sent.headers)
      BY <2>1, Zenon DEF Charted
    <2>3. p \in [1 .. N + 1 -> Nat] /\ p[1] = e + 8 + 3 /\ h = p[N + 1] + 1 /\ \A i \in 1 .. N : p[i + 1] <= p[N + 1]
      BY <1>10, <2>1, <2>2, Zenon DEF Charted
    <2>4. CASE N = 0
      BY <2>2, <2>3, <2>4
    <2>5. CASE N # 0
      <3>1. PICK n, c \in Nat : Headed(Wire(sent), sent.headers[1].key, sent.headers[1].value, p[1], n, c) /\ p[2] = c + 2
        <4>1. 1 \in 1 .. N /\ 1 + 1 = 2
          BY <2>5
        <4>2. \E n, c \in Nat : Headed(Wire(sent), sent.headers[1].key, sent.headers[1].value, p[1], n, c) /\ p[1 + 1] = c + 2
          BY <2>1, <2>2, <4>1, Zenon DEF Charted
        <4> QED BY <4>1, <4>2
      <3>2. PICK x, y \in Nat : n = p[1] + x /\ c = n + 2 + y
        <4>1. sent.headers[1].key \in Words /\ sent.headers[1].value \in Words
          BY <3>1, Zenon DEF Headed
        <4>2. PICK K, J \in Words : K = sent.headers[1].key /\ J = sent.headers[1].value
          BY ONLY <4>1, Zenon
        <4>3. PICK x, y \in Nat : x = Len(K) /\ y = Len(J)
          BY ONLY K \in Words, J \in Words DEF Words
        <4>4. n = p[1] + x /\ c = n + 2 + y
          BY <3>1, <4>2, <4>3, Zenon DEF Headed
        <4> QED BY <4>4
      <3>3. 1 \in 1 .. N /\ N + 1 \in 1 .. N + 1 /\ 2 \in 1 .. N + 1 /\ p[1 + 1] <= p[N + 1]
        BY <2>3, <2>5
      <3>4. PICK u, v, w \in Nat : u = p[1] /\ v = p[2] /\ w = p[N + 1]
        <4>1. 1 \in 1 .. N + 1
          OBVIOUS
        <4> QED BY <2>3, <3>3, <4>1
      <3>5. u = e + 11 /\ h = w + 1 /\ v <= w /\ v = c + 2 /\ n = u + x /\ c = n + 2 + y
        BY <2>3, <3>1, <3>2, <3>3, <3>4
      <3>6. h >= e + 12
        BY ONLY <3>5, u \in Nat, v \in Nat, w \in Nat, e \in Nat, h \in Nat, n \in Nat, c \in Nat, x \in Nat, y \in Nat
      <3> QED BY <2>2, <3>6
    <2> QED BY <2>4, <2>5
  <1>12. /\ s \in 5 .. 9 /\ e > s
    BY <1>7, <1>8
  <1>13. L >= s - 1 => str[s - 1] = SP
    <2>1. W[a + 1] = SP
      BY <1>2, <1>3, Zenon DEF Laid
    <2> QED BY <1>6, <1>7, <2>1
  <1>14. Len(P) = e - s
    BY <1>4, <1>8
  <1>15. ASSUME NEW k \in s .. e - 1, k <= L PROVE str[k] \notin {SP, HT, CR, LF} /\ str[k] = P[k - s + 1]
    <2>1. PICK j \in 1 .. l : j = k - s + 1 /\ k = a + 1 + j
      BY <1>7, <1>8
    <2>2. W[a + 1 + j] = P[j]
      BY <1>2, <1>3, <1>4, Zenon DEF Laid
    <2>3. P[j] \notin {SP, HT, CR, LF}
      BY <1>1, <1>4, PathSeparable, Zenon
    <2>4. str[k] = W[k]
      BY <1>6, <1>12, <1>15
    <2> QED BY <2>1, <2>2, <2>3, <2>4
  <1>16. e <= L => str[e] = SP
    <2>1. W[a + 2 + l] = SP
      BY <1>2, <1>3, <1>4, Zenon DEF Laid
    <2> QED BY <1>6, <1>7, <1>8, <2>1
  <1>17. /\ \A k \in 1 .. 5 : V[k] = HTTP[k]
         /\ V[6] \in {"1", "2"} /\ V[7] = "." /\ V[8] \in {"0", "1"}
         /\ V[6] = "2" <=> sent.version = "HTTP_2_0"
         /\ V[8] = "1" <=> sent.version = "HTTP_1_1"
    <2>1. PICK v \in DOMAIN HTTP_VERSION_STRINGS : v = sent.version
      BY SentAssumption
    <2>2. V = HTTP_VERSION_STRINGS[v]
      BY <1>1, <2>1
    <2>3. /\ \A k \in 1 .. 5 : V[k] = HTTP[k]
          /\ V[6] \in {"1", "2"} /\ V[7] = "." /\ V[8] \in {"0", "1"}
          /\ V[6] = "2" <=> v = "HTTP_2_0"
          /\ V[8] = "1" <=> v = "HTTP_1_1"
      BY ONLY <2>2, v \in DOMAIN HTTP_VERSION_STRINGS, VersionWords
    <2> QED BY <2>1, <2>3
  <1>18. ASSUME NEW k \in 1 .. 8, e + k <= L PROVE str[e + k] = V[k]
    <2>1. W[a + 2 + l + k] = V[k]
      BY <1>2, <1>3, <1>4, Zenon DEF Laid
    <2> QED BY <1>6, <1>7, <1>8, <1>18, <2>1
  <1>19. ASSUME NEW k \in 1 .. 8 PROVE V[k] \notin {SP, HT, CR, LF}
    <2>1. V[1] = "H" /\ V[2] = "T" /\ V[3] = "T" /\ V[4] = "P" /\ V[5] = "/"
      BY <1>17, HTTPWord
    <2>2. V[k] \in {"H", "T", "P", "/", "1", "2", ".", "0"}
      BY <1>17, <2>1
    <2> QED BY <2>2 DEF SP, HT, CR, LF
  <1>20. /\ e + 9 <= L => str[e + 9] = CR
         /\ e + 10 <= L => str[e + 10] = LF
    <2>1. W[a + 11 + l] = CR /\ W[a + 12 + l] = LF
      BY <1>2, <1>3, <1>4, Zenon DEF Laid
    <2> QED BY <1>6, <1>7, <1>8, <2>1
  <1>21. Shows(L, s, e, h)
    <2>1. /\ e + 6 <= L => (str[e + 6] = "2" <=> sent.version = "HTTP_2_0")
          /\ e + 7 <= L => str[e + 7] = "."
          /\ e + 8 <= L => str[e + 8] \in {"0", "1"} /\ (str[e + 8] = "1" <=> sent.version = "HTTP_1_1")
      BY <1>17, <1>18
    <2>2. \A k \in 1 .. 5 : e + k <= L => str[e + k] = HTTP[k]
      BY <1>17, <1>18
    <2>3. \A k \in 1 .. 8 : e + k <= L => str[e + k] \notin {SP, HT, CR, LF}
      BY <1>18, <1>19
    <2>4. Len(sent.path) = e - s /\ \A k \in s .. e - 1 : k <= L => str[k] \notin {SP, HT, CR, LF} /\ str[k] = sent.path[k - s + 1]
      BY <1>1, <1>14, <1>15, Zenon
    <2> QED BY <1>5, <1>11, <1>12, <1>13, <1>16, <1>20, <2>1, <2>2, <2>3, <2>4, Zenon DEF Shows
  <1> QED BY <1>9, <1>10, <1>11, <1>21, Zenon


\* What str, L characters long, shows of a header from a on, with its colon at n and its line end at c.
HeaderShows(L, K, V, a, n, c) ==
  /\ a \in Nat \ {0} /\ n \in Nat /\ c \in Nat /\ a <= n /\ n + 2 <= c
  /\ K \in Words /\ V \in Words /\ Len(K) = n - a /\ Len(V) = c - n - 2
  /\ \A k \in a .. n - 1 : k <= L => str[k] \notin {SP, CR, LF} /\ str[k] = K[k - a + 1]
  /\ n <= L => str[n] = ":"
  /\ n + 1 <= L => str[n + 1] = SP
  /\ \A k \in n + 2 .. c - 1 : k <= L => str[k] \notin {CR, LF} /\ str[k] = V[k - n - 1]
  /\ c <= L => str[c] = CR

\* The parser's map of a message that was not damaged.
Chart(L, s, e, h, p) ==
  /\ L \in Nat /\ s \in Nat /\ e \in Nat /\ h \in Nat /\ s = PathStart /\ h = Len(WireHead(sent))
  /\ sent \in Sent /\ Separable(sent) /\ str \in Words
  /\ Shows(L, s, e, h)
  /\ Charted(Wire(sent), sent.headers, sent.body, e + 8, p, h)
  /\ L <= Len(Wire(sent)) /\ \A k \in 1 .. L : str[k] = Wire(sent)[k]

LEMMA ChartDrawn ==
  ASSUME sent \in Sent, Separable(sent), Cut, str \in Words
  PROVE  \E L, s, e, h, p : Chart(L, s, e, h, p)
  <1>1. PICK L, s, e, h \in Nat :
          s = PathStart /\ e = PathEnd /\ LineEnd = e + 8 /\ h = Len(WireHead(sent)) /\ Shows(L, s, e, h)
    BY Surveyed
  <1>2. PICK p : Charted(Wire(sent), sent.headers, sent.body, LineEnd, p, Len(WireHead(sent)))
    BY WireCharted
  <1>3. Len(str) = L
    BY <1>1 DEF Shows
  <1>4. L <= Len(Wire(sent)) /\ \A k \in 1 .. L : str[k] = Wire(sent)[k]
    BY <1>3, Zenon DEF Cut
  <1>5. Charted(Wire(sent), sent.headers, sent.body, e + 8, p, h)
    BY <1>1, <1>2, Zenon
  <1>6. Chart(L, s, e, h, p)
    BY <1>1, <1>4, <1>5, Zenon DEF Chart
  <1> QED BY <1>6

\* Names have no blank and no line end, values no line end.
LEMMA HeaderSeparable ==
  ASSUME NEW r, Separable(r), NEW H, H = r.headers, NEW i \in 1 .. Len(H)
  PROVE  /\ H[i].key \in Words /\ \A k \in 1 .. Len(H[i].key) : H[i].key[k] \notin {SP, CR, LF}
         /\ H[i].value \in Words /\ \A k \in 1 .. Len(H[i].value) : H[i].value[k] \notin {CR, LF}
  <1>1. PICK K, V : K = H[i].key /\ V = H[i].value
    OBVIOUS
  <1>2. PICK G : G = [key : Seq(Char \ {SP, CR, LF}), value : Seq(Char \ {CR, LF})]
    OBVIOUS
  <1>3. H \in Seq(G)
    BY <1>2, LinesAre, Zenon
  <1>4. H[i] \in G
    BY ONLY <1>3, i \in 1 .. Len(H)
  <1>5. \A g \in [key : Seq(Char \ {SP, CR, LF}), value : Seq(Char \ {CR, LF})] :
          g.key \in Seq(Char \ {SP, CR, LF}) /\ g.value \in Seq(Char \ {CR, LF})
    OBVIOUS
  <1>6. K \in Seq(Char \ {SP, CR, LF}) /\ V \in Seq(Char \ {CR, LF})
    BY <1>1, <1>2, <1>4, <1>5, Zenon
  <1>7. K \in Words /\ \A k \in 1 .. Len(K) : K[k] \notin {SP, CR, LF}
    <2>1. Len(K) \in Nat /\ \A k \in 1 .. Len(K) : K[k] \in Char \ {SP, CR, LF}
      BY ONLY <1>6
    <2>2. K \in Words
      BY <1>6 DEF Words
    <2> QED BY <2>1, <2>2
  <1>8. V \in Words /\ \A k \in 1 .. Len(V) : V[k] \notin {CR, LF}
    <2>1. Len(V) \in Nat /\ \A k \in 1 .. Len(V) : V[k] \in Char \ {CR, LF}
      BY ONLY <1>6
    <2>2. V \in Words
      BY <1>6 DEF Words
    <2> QED BY <2>1, <2>2
  <1> QED BY <1>1, <1>7, <1>8, Zenon

LEMMA HeaderShown ==
  ASSUME NEW L, NEW s, NEW e, NEW h, NEW p, Chart(L, s, e, h, p), NEW i \in 1 .. Len(sent.headers)
  PROVE  \E n, c \in Nat : /\ HeaderShows(L, sent.headers[i].key, sent.headers[i].value, p[i], n, c)
                           /\ p[i + 1] = c + 2 /\ c + 3 <= h
  <1>1. PICK W, H, B : W = Wire(sent) /\ H = sent.headers /\ B = sent.body
    OBVIOUS
  <1>2. PICK K, V, a : K = H[i].key /\ V = H[i].value /\ a = p[i]
    OBVIOUS
  <1>3. Charted(W, H, B, e + 8, p, h) /\ L \in Nat /\ h \in Nat /\ \A k \in 1 .. L : str[k] = W[k]
    BY <1>1, Zenon DEF Chart
  <1>4. i \in 1 .. Len(H)
    BY <1>1
  <1>5. PICK n, c \in Nat : Headed(W, K, V, a, n, c) /\ p[i + 1] = c + 2
    BY <1>2, <1>3, <1>4, Zenon DEF Charted
  <1>6. c + 2 <= p[Len(H) + 1] /\ h = p[Len(H) + 1] + 1
    BY <1>3, <1>4, <1>5, Zenon DEF Charted
  <1>7. c + 3 <= h
    <2>1. PICK N \in Nat : N = Len(H)
      BY <1>3, Zenon DEF Charted
    <2>2. p \in [1 .. N + 1 -> Nat] /\ c + 2 <= p[N + 1] /\ h = p[N + 1] + 1
      BY <1>3, <1>6, <2>1, Zenon DEF Charted
    <2>3. PICK q \in Nat : q = p[N + 1]
      BY <2>1, <2>2
    <2> QED BY ONLY <2>2, <2>3, c \in Nat
  <1>8. /\ K \in Words /\ \A k \in 1 .. Len(K) : K[k] \notin {SP, CR, LF}
        /\ V \in Words /\ \A k \in 1 .. Len(V) : V[k] \notin {CR, LF}
    <2>1. Separable(sent)
      BY DEF Chart
    <2> QED BY <1>1, <1>2, <1>4, <2>1, HeaderSeparable, Zenon
  <1>9. PICK x, y \in Nat : x = Len(K) /\ y = Len(V)
    BY <1>8 DEF Words
  <1>10. /\ a \in Nat \ {0} /\ n = a + x /\ c = n + 2 + y
         /\ \A k \in 1 .. x : W[a + k - 1] = K[k] /\ K[k] \notin {SP, CR, LF}
         /\ W[n] = ":" /\ W[n + 1] = SP /\ W[c] = CR
         /\ \A k \in 1 .. y : W[n + 1 + k] = V[k] /\ V[k] \notin {CR, LF}
    BY <1>5, <1>8, <1>9, Zenon DEF Headed
  <1>11. ASSUME NEW k \in a .. n - 1, k <= L PROVE str[k] \notin {SP, CR, LF} /\ str[k] = K[k - a + 1]
    <2>1. PICK j \in 1 .. x : j = k - a + 1 /\ a + j - 1 = k
      BY <1>10
    <2>2. W[k] = K[j] /\ K[j] \notin {SP, CR, LF}
      BY <1>10, <2>1
    <2>3. str[k] = W[k]
      BY <1>3, <1>10, <1>11
    <2> QED BY <2>1, <2>2, <2>3
  <1>12. ASSUME NEW k \in n + 2 .. c - 1, k <= L PROVE str[k] \notin {CR, LF} /\ str[k] = V[k - n - 1]
    <2>1. PICK j \in 1 .. y : j = k - n - 1 /\ n + 1 + j = k
      BY <1>10
    <2>2. W[k] = V[j] /\ V[j] \notin {CR, LF}
      BY <1>10, <2>1
    <2>3. str[k] = W[k]
      BY <1>3, <1>10, <1>12
    <2> QED BY <2>1, <2>2, <2>3
  <1>13. /\ n <= L => str[n] = ":"
         /\ n + 1 <= L => str[n + 1] = SP
         /\ c <= L => str[c] = CR
    BY <1>3, <1>10
  <1>14. a <= n /\ n + 2 <= c /\ x = n - a /\ y = c - n - 2
    BY <1>10
  <1>15. HeaderShows(L, K, V, a, n, c)
    BY <1>8, <1>9, <1>10, <1>11, <1>12, <1>13, <1>14, Zenon DEF HeaderShows
  <1> QED BY <1>1, <1>2, <1>5, <1>7, <1>15, Zenon

\* What StringParser looks for is one character, or the two of a line end.
LEMMA OneIs ==
  ASSUME str \in Words, NEW i \in Nat \ {0}, NEW word \in Words, Len(word) = 1, NEW x, x = word[1]
  PROVE  StartsWith(i, word) <=> i <= Len(str) /\ str[i] = x
  <1>1. PICK L \in Nat : L = Len(str)
    BY DEF Words
  <1>2. ASSUME StartsWith(i, word) PROVE i <= L /\ str[i] = x
    <2>1. i + Len(word) <= Len(str) + 1 /\ \A k \in 1 .. Len(word) : str[i + k - 1] = word[k]
      <3>1. Len(word) > 0
        OBVIOUS
      <3> QED BY <1>2, <3>1, StartsMeans, Zenon
    <2>2. i + 1 <= L + 1 /\ \A k \in 1 .. 1 : str[i + k - 1] = word[k]
      BY <1>1, <2>1, Zenon
    <2> QED BY <2>2
  <1>3. ASSUME i <= L, str[i] = x PROVE StartsWith(i, word)
    <2>1. i + 1 <= L + 1 /\ \A k \in 1 .. 1 : str[i + k - 1] = word[k]
      BY <1>3
    <2>2. i + Len(word) <= Len(str) + 1 /\ \A k \in 1 .. Len(word) : str[i + k - 1] = word[k]
      BY <1>1, <2>1, Zenon
    <2> QED BY <2>2, MeansStarts, Zenon
  <1> QED BY <1>1, <1>2, <1>3

LEMMA TwoAre ==
  ASSUME str \in Words, NEW i \in Nat \ {0}, NEW word \in Words, Len(word) = 2, NEW x, NEW y, x = word[1], y = word[2]
  PROVE  StartsWith(i, word) <=> i + 1 <= Len(str) /\ str[i] = x /\ str[i + 1] = y
  <1>1. PICK L \in Nat : L = Len(str)
    BY DEF Words
  <1>2. ASSUME StartsWith(i, word) PROVE i + 1 <= L /\ str[i] = x /\ str[i + 1] = y
    <2>1. i + Len(word) <= Len(str) + 1 /\ \A k \in 1 .. Len(word) : str[i + k - 1] = word[k]
      <3>1. Len(word) > 0
        OBVIOUS
      <3> QED BY <1>2, <3>1, StartsMeans, Zenon
    <2>2. i + 2 <= L + 1 /\ \A k \in 1 .. 2 : str[i + k - 1] = word[k]
      BY <1>1, <2>1, Zenon
    <2>3. str[i + 1 - 1] = word[1] /\ str[i + 2 - 1] = word[2]
      BY <2>2
    <2> QED BY <2>2, <2>3
  <1>3. ASSUME i + 1 <= L, str[i] = x, str[i + 1] = y PROVE StartsWith(i, word)
    <2>1. i + 2 <= L + 1 /\ \A k \in 1 .. 2 : str[i + k - 1] = word[k]
      <3>1. ASSUME NEW k \in 1 .. 2 PROVE str[i + k - 1] = word[k]
        <4>1. k = 1 \/ k = 2
          OBVIOUS
        <4> QED BY <1>3, <4>1
      <3> QED BY <1>3, <3>1
    <2>2. i + Len(word) <= Len(str) + 1 /\ \A k \in 1 .. Len(word) : str[i + k - 1] = word[k]
      BY <1>1, <2>1, Zenon
    <2> QED BY <2>2, MeansStarts, Zenon
  <1> QED BY <1>1, <1>2, <1>3

\* A piece of the string, and the word it spells.
LEMMA PieceIs ==
  ASSUME str \in Words, NEW word \in Words, NEW a \in Nat \ {0}, NEW b \in Nat, b <= Len(str),
         a <= b + 1, Len(word) = b - a + 1, \A k \in a .. b : str[k] = word[k - a + 1]
  PROVE  SubSeq(str, a, b) = word
  <1>1. PICK L \in Nat : L = Len(str)
    BY DEF Words
  <1>2. PICK d \in Nat : d = b - a + 1
    OBVIOUS
  <1>3. PICK u : u = SubSeq(str, a, b)
    OBVIOUS
  <1>4. u \in Words /\ Len(u) = d /\ \A k \in 1 .. d : u[k] = str[a + k - 1]
    <2>1. a \in 1 .. Len(str) + 1 /\ b \in a - 1 .. Len(str)
      BY <1>1
    <2>2. str \in Seq(Char)
      BY DEF Words
    <2>3. u \in Seq(Char) /\ Len(u) = b - a + 1 /\ \A k \in 1 .. b - a + 1 : u[k] = str[a + k - 1]
      BY ONLY <1>3, <2>1, <2>2, SubSeqProperties, a \in Nat \ {0}, b \in Nat, a <= b + 1
    <2> QED BY <1>2, <2>3 DEF Words
  <1>5. ASSUME NEW k \in 1 .. d PROVE u[k] = word[k]
    <2>1. PICK j \in a .. b : j = a + k - 1 /\ j - a + 1 = k
      BY <1>2
    <2> QED BY <1>4, <2>1
  <1>6. Len(word) = d
    BY <1>2
  <1>7. u = word
    BY ONLY <1>4, <1>5, <1>6, SeqEqual, word \in Words DEF Words
  <1> QED BY <1>3, <1>7


-----------------------------------------------------------------------------
(* The parser keeps to the map.                                            *)

\* The path was cut off, and the parser is in it.
Lost(L, s, e) == L < e /\ at >= s - 1

LineRead == request.path = sent.path /\ request.version = sent.version /\ sent.version # "HTTP_1_0"

\* m maps the names of the first j headers in H, and no others, to their values.
MapOf(H, j, m) ==
  /\ m = [k \in {H[i].key : i \in 1 .. j} |-> m[k]]
  /\ \A i \in 1 .. j : m[H[i].key] = H[i].value

HeadersRead(j) == MapOf(sent.headers, j, request.headers)

Ended(L, h) ==
  IF L < h THEN outcome # "request"
  ELSE IF sent.version = "HTTP_1_0" THEN outcome = "error"
  ELSE outcome = "request" /\ request = Parsed(sent, Rest(h + 1))

(***************************************************************************)
(* Where the parser stands on the map and what it has read.                *)
(***************************************************************************)
Tracks(L, s, e, h, p) ==
  /\ pc \in {"method", "space1", "path", "space2", "version", "end"} => request.headers = NoHeaders
  /\ pc = "path" => at = s
  /\ pc = "space2" => Lost(L, s, e) \/ (request.path = sent.path /\ at = e)
  /\ pc = "version" => Lost(L, s, e) \/ (request.path = sent.path /\ at = e + 1)
  /\ pc = "end" => \/ Lost(L, s, e)
                   \/ L <= e + 9 /\ at > e
                   \/ L > e + 9 /\ sent.version = "HTTP_1_0" /\ at = e + 8
                   \/ L > e + 9 /\ LineRead /\ at = e + 9
  /\ pc = "headers" => LineRead /\ \E j \in 0 .. Len(sent.headers) : at = p[j + 1] /\ HeadersRead(j)
  /\ pc = "behind" => L < h
  /\ pc = "done" => Ended(L, h)

LEMMA EndsShort ==
  ASSUME NEW L, NEW s, NEW e, NEW h, NEW p, L < h, pc' = "done", outcome' # "request"
  PROVE  Tracks(L, s, e, h, p)'
  BY DEF Tracks, Ended

\* What the map says, with the numbers as numbers.
LEMMA ChartRead ==
  ASSUME NEW L, NEW s, NEW e, NEW h, NEW p, Chart(L, s, e, h, p)
  PROVE  /\ L \in Nat /\ s \in Nat /\ e \in Nat /\ h \in Nat /\ str \in Words /\ Len(str) = L
         /\ s \in 5 .. 9 /\ e > s /\ h >= e + 12
  BY DEF Chart, Shows

\* The method is always read when it is there.
LEMMA MethodTracks ==
  ASSUME NEW L, NEW s, NEW e, NEW h, NEW p, Chart(L, s, e, h, p), Tracks(L, s, e, h, p),
         PlaceInvariant, method_string_to_enum
  PROVE  Tracks(L, s, e, h, p)'
  <1>1. /\ L \in Nat /\ s \in Nat /\ e \in Nat /\ h \in Nat /\ str \in Words /\ Len(str) = L
        /\ s \in 5 .. 9 /\ e > s /\ h >= e + 12
    BY ChartRead, Zenon
  <1>2. pc = "method" /\ at = 1 /\ outcome = "none" /\ request.headers = NoHeaders /\ ShapeOf(request)
    BY DEF PlaceInvariant, Typed, Stands, method_string_to_enum, Tracks
  <1>3. ASSUME NEW m \in DOMAIN Spell, Step("space1", at + Len(Spell[m])), request' = [request EXCEPT !.method = m]
        PROVE  Tracks(L, s, e, h, p)'
    <2>1. request'.headers = NoHeaders
      BY <1>2, <1>3 DEF ShapeOf
    <2>2. pc' = "space1"
      BY <1>3 DEF Step
    <2> QED BY <2>1, <2>2 DEF Tracks
  <1>4. ASSUME \A m \in DOMAIN Spell : ~StartsWith(at, Spell[m]), pc' = "done", outcome' \in {"throws", "error", "abort"}
        PROVE  Tracks(L, s, e, h, p)'
    <2>1. L < h
      <3> SUFFICES ASSUME L >= h PROVE FALSE
        BY <1>1
      <3>1. PICK n : n = sent.method
        OBVIOUS
      <3>2. n \in DOMAIN Spell
        BY <3>1, SentAssumption DEF Chart
      <3>3. PICK A : A = Spell[n]
        OBVIOUS
      <3>4. A \in Words /\ PathStart = Len(A) + 2
        BY <3>1, <3>2, <3>3, Spelled, Zenon DEF PathStart
      <3>5. PICK a \in Nat : a = Len(A)
        BY <3>4 DEF Words
      <3>6. s = a + 2
        BY <3>4, <3>5, Zenon DEF Chart
      <3>7. \A k \in 1 .. a : Wire(sent)[k] = A[k]
        <4>1. Laid(Wire(sent), A, sent.path, HTTP_VERSION_STRINGS[sent.version])
          BY <3>1, <3>3, WireLaid, Zenon DEF Chart
        <4> QED BY <3>5, <4>1, Zenon DEF Laid
      <3>8. \A k \in 1 .. L : str[k] = Wire(sent)[k]
        BY DEF Chart
      <3>9. 1 + a <= L + 1 /\ \A k \in 1 .. a : str[1 + k - 1] = A[k]
        <4>1. a < L
          BY <1>1, <3>6
        <4>2. ASSUME NEW k \in 1 .. a PROVE str[1 + k - 1] = A[k]
          <5>1. k \in 1 .. L /\ 1 + k - 1 = k
            BY <1>1, <4>1
          <5> QED BY <3>7, <3>8, <5>1
        <4> QED BY <1>1, <4>1, <4>2
      <3>10. 1 + Len(A) <= Len(str) + 1 /\ \A k \in 1 .. Len(A) : str[1 + k - 1] = A[k]
        BY <1>1, <3>5, <3>9, Zenon
      <3>11. 1 \in Nat \ {0}
        OBVIOUS
      <3>12. StartsWith(1, A)
        BY <1>1, <3>4, <3>10, <3>11, MeansStarts, Zenon
      <3> QED BY <1>2, <1>4, <3>2, <3>3, <3>12, Zenon
    <2> QED BY <1>4, <2>1, EndsShort
  <1> QED BY <1>3, <1>4 DEF method_string_to_enum, Fail, Finish, Unchecked

\* The blank behind the method is the only one.
LEMMA Space1Tracks ==
  ASSUME NEW L, NEW s, NEW e, NEW h, NEW p, Chart(L, s, e, h, p), Tracks(L, s, e, h, p),
         PlaceInvariant, Delivered, expect_two("space1", "path")
  PROVE  Tracks(L, s, e, h, p)'
  <1>1. /\ L \in Nat /\ s \in Nat /\ e \in Nat /\ h \in Nat /\ str \in Words /\ Len(str) = L
        /\ s \in 5 .. 9 /\ e > s /\ h >= e + 12
    BY ChartRead, Zenon
  <1>2. pc = "space1" /\ at = Start /\ Begun /\ Typed /\ outcome = "none" /\ request.headers = NoHeaders /\ request' = request
    BY DEF PlaceInvariant, Stands, expect_two, Tracks
  <1>3. at = s - 1
    <2>1. request.method = sent.method
      BY <1>2, MethodRight
    <2>2. PICK a : a = Len(Spell[sent.method])
      OBVIOUS
    <2>3. a \in 3 .. 7
      BY <2>2, WireIs DEF Chart
    <2>4. at = a + 1 /\ s = a + 2
      BY <1>2, <2>1, <2>2, Zenon DEF Start, Chart, PathStart
    <2> QED BY <2>3, <2>4
  <1>4. CASE ~AtEnd(at) /\ str[at] \in Blank
             /\ Step("path", Min({n \in at .. Len(str) + 1 : AtEnd(n) \/ str[n] \notin Blank}))
    <2>1. pc' = "path" /\ at' = Behind(at)
      BY <1>4 DEF Step, Behind
    <2>2. at \in 1 .. Len(str)
      BY <1>1, <1>3, <1>4 DEF AtEnd
    <2>3. PICK j : j = Behind(at)
      OBVIOUS
    <2>4. j \in at + 1 .. Len(str) + 1 /\ \A n \in at .. j - 1 : str[n] \in Blank
      BY <1>1, <1>4, <2>2, <2>3, BlanksEnd
    <2>5. j \in s .. L + 1 /\ \A n \in s - 1 .. j - 1 : str[n] \in Blank
      BY <1>1, <1>3, <2>4
    <2>6. j = s
      <3> SUFFICES ASSUME j > s PROVE FALSE
        BY <1>1, <2>5
      <3>1. s \in s - 1 .. j - 1 /\ s <= L /\ s \in s .. e - 1
        BY <1>1, <2>5
      <3>2. str[s] \in Blank
        BY <2>5, <3>1
      <3>3. str[s] \notin {SP, HT, CR, LF}
        BY <3>1 DEF Chart, Shows
      <3> QED BY <3>2, <3>3 DEF Blank
    <2> QED BY <1>2, <2>1, <2>3, <2>6 DEF Tracks
  <1>5. CASE ~(~AtEnd(at) /\ str[at] \in Blank) /\ pc' = "done" /\ outcome' \in {"error", "abort"}
    <2>1. L < h
      <3> SUFFICES ASSUME L >= h PROVE FALSE
        BY <1>1
      <3>1. L >= s - 1
        BY <1>1
      <3>2. str[at] = SP
        BY <1>3, <3>1 DEF Chart, Shows
      <3>3. ~AtEnd(at)
        BY <1>1, <1>3, <3>1 DEF AtEnd
      <3> QED BY <1>5, <3>2, <3>3, Characters
    <2> QED BY <1>5, <2>1, EndsShort
  <1> QED BY <1>4, <1>5 DEF expect_two, Finish, Unchecked

\* The path is what is between the two blanks.
LEMMA PathTracks ==
  ASSUME NEW L, NEW s, NEW e, NEW h, NEW p, Chart(L, s, e, h, p), Tracks(L, s, e, h, p),
         PlaceInvariant, next_token
  PROVE  Tracks(L, s, e, h, p)'
  <1>1. /\ L \in Nat /\ s \in Nat /\ e \in Nat /\ h \in Nat /\ str \in Words /\ Len(str) = L
        /\ s \in 5 .. 9 /\ e > s /\ h >= e + 12
    BY ChartRead, Zenon
  <1>2. pc = "path" /\ at = s /\ outcome = "none" /\ request.headers = NoHeaders /\ ShapeOf(request)
    BY DEF PlaceInvariant, Typed, Stands, next_token, Tracks
  <1>3. \A k \in s .. e - 1 : k <= L => str[k] # SP
    BY DEF Chart, Shows
  <1>4. e <= L => str[e] = SP
    BY DEF Chart, Shows
  <1>5. ASSUME Find(at, {SP}) = {} PROVE L < e
    <2> SUFFICES ASSUME L >= e PROVE FALSE
      BY <1>1
    <2>1. e \in at .. Len(str) /\ str[e] \in {SP}
      BY <1>1, <1>2, <1>4
    <2> QED BY <1>5, <2>1 DEF Find
  <1>6. CASE /\ Find(at, {SP}) # {} /\ Step("space2", Min(Find(at, {SP})))
             /\ request' = [request EXCEPT !.path = SubSeq(str, at, at' - 1)]
    <2>1. PICK m : m = Min(Find(at, {SP}))
      OBVIOUS
    <2>2. at \in Nat \ {0}
      BY <1>1, <1>2
    <2>3. m \in at .. Len(str) /\ str[m] \in {SP} /\ \A j \in at .. m - 1 : str[j] \notin {SP}
      BY <1>1, <1>6, <2>1, <2>2, FindIs
    <2>4. m \in s .. L /\ str[m] = SP /\ \A j \in s .. m - 1 : str[j] # SP
      BY <1>1, <1>2, <2>3
    <2>5. m = e
      <3>1. ~(m < e)
        BY <1>1, <1>3, <2>4
      <3>2. ~(m > e)
        BY <1>1, <1>4, <2>4
      <3> QED BY <1>1, <2>4, <3>1, <3>2
    <2>6. at' = e /\ pc' = "space2" /\ sent' = sent
      BY <1>6, <2>1, <2>5 DEF Step
    <2>7. SubSeq(str, s, e - 1) = sent.path
      <3>1. PICK P : P = sent.path
        OBVIOUS
      <3>2. P \in Words
        BY <3>1, PathSeparable, Zenon DEF Chart
      <3>3. Len(P) = e - s /\ \A k \in s .. e - 1 : k <= L => str[k] = P[k - s + 1]
        BY <3>1, Zenon DEF Chart, Shows
      <3>4. PICK b \in Nat : b = e - 1
        BY <1>1
      <3>5. b <= Len(str) /\ s <= b + 1 /\ Len(P) = b - s + 1 /\ s \in Nat \ {0}
        BY <1>1, <2>4, <2>5, <3>3, <3>4
      <3>6. \A k \in s .. b : str[k] = P[k - s + 1]
        BY <1>1, <2>4, <2>5, <3>3, <3>4
      <3>7. SubSeq(str, s, b) = P
        BY <1>1, <3>2, <3>5, <3>6, PieceIs, Zenon
      <3> QED BY <3>1, <3>4, <3>7, Zenon
    <2>8. request' = [request EXCEPT !.path = sent.path]
      BY <1>2, <1>6, <2>6, <2>7, Zenon
    <2>9. request'.path = sent'.path /\ request'.headers = NoHeaders
      BY <1>2, <2>6, <2>8 DEF ShapeOf
    <2> QED BY <2>6, <2>9 DEF Tracks
  <1>7. CASE Find(at, {SP}) = {} /\ Step("space2", at - 1) /\ request' = [request EXCEPT !.path = Rest(at)]
    <2>1. L < e
      BY <1>5, <1>7
    <2>2. at' = s - 1 /\ pc' = "space2"
      BY <1>2, <1>7 DEF Step
    <2>3. request'.headers = NoHeaders
      BY <1>2, <1>7 DEF ShapeOf
    <2>4. Lost(L, s, e)'
      BY <1>1, <2>1, <2>2 DEF Lost
    <2> QED BY <2>2, <2>3, <2>4 DEF Tracks
  <1>8. CASE Find(at, {SP}) = {} /\ Fail("abort")
    <2>1. L < e
      BY <1>5, <1>8
    <2>2. L < h
      BY <1>1, <2>1
    <2> QED BY <1>8, <2>2, EndsShort DEF Fail, Finish
  <1> QED BY <1>6, <1>7, <1>8 DEF next_token

LEMMA Space2Tracks ==
  ASSUME NEW L, NEW s, NEW e, NEW h, NEW p, Chart(L, s, e, h, p), Tracks(L, s, e, h, p),
         PlaceInvariant, expect_two("space2", "version")
  PROVE  Tracks(L, s, e, h, p)'
  <1>1. /\ L \in Nat /\ s \in Nat /\ e \in Nat /\ h \in Nat /\ str \in Words /\ Len(str) = L
        /\ s \in 5 .. 9 /\ e > s /\ h >= e + 12
    BY ChartRead, Zenon
  <1>2. /\ pc = "space2" /\ outcome = "none" /\ request.headers = NoHeaders /\ request' = request
        /\ Lost(L, s, e) \/ (request.path = sent.path /\ at = e)
    BY DEF PlaceInvariant, Stands, expect_two, Tracks
  <1>3. at \in 1 .. L + 1
    BY <1>1, <1>2 DEF PlaceInvariant, Typed
  <1>4. CASE ~AtEnd(at) /\ str[at] \in Blank
             /\ Step("version", Min({n \in at .. Len(str) + 1 : AtEnd(n) \/ str[n] \notin Blank}))
    <2>1. pc' = "version" /\ at' = Behind(at) /\ sent' = sent
      BY <1>4 DEF Step, Behind
    <2>2. at \in 1 .. Len(str)
      BY <1>1, <1>3, <1>4 DEF AtEnd
    <2>3. PICK j : j = Behind(at)
      OBVIOUS
    <2>4. j \in at + 1 .. Len(str) + 1 /\ \A n \in at .. j - 1 : str[n] \in Blank
      BY <1>1, <1>4, <2>2, <2>3, BlanksEnd
    <2>5. CASE Lost(L, s, e)
      <3>1. j >= s - 1 /\ L < e
        BY <1>1, <1>3, <2>4, <2>5 DEF Lost
      <3>2. Lost(L, s, e)'
        BY <2>1, <2>3, <3>1 DEF Lost
      <3> QED BY <1>2, <2>1, <3>2 DEF Tracks
    <2>6. CASE request.path = sent.path /\ at = e
      <3>1. j \in e + 1 .. L + 1 /\ \A n \in e .. j - 1 : str[n] \in Blank
        BY <1>1, <2>4, <2>6
      <3>2. j = e + 1
        <4> SUFFICES ASSUME j > e + 1 PROVE FALSE
          BY <1>1, <3>1
        <4>1. e + 1 \in e .. j - 1 /\ e + 1 <= L /\ 1 \in 1 .. 8
          BY <1>1, <3>1
        <4>2. str[e + 1] \in Blank
          BY <3>1, <4>1
        <4>3. str[e + 1] \notin {SP, HT, CR, LF}
          BY <4>1 DEF Chart, Shows
        <4> QED BY <4>2, <4>3 DEF Blank
      <3> QED BY <1>2, <2>1, <2>3, <2>6, <3>2 DEF Tracks
    <2> QED BY <1>2, <2>5, <2>6
  <1>5. CASE ~(~AtEnd(at) /\ str[at] \in Blank) /\ pc' = "done" /\ outcome' \in {"error", "abort"}
    <2>1. L < h
      <3> SUFFICES ASSUME L >= h PROVE FALSE
        BY <1>1
      <3>1. at = e /\ e <= L
        BY <1>1, <1>2 DEF Lost
      <3>2. str[at] = SP
        BY <3>1 DEF Chart, Shows
      <3>3. ~AtEnd(at)
        BY <1>1, <3>1 DEF AtEnd
      <3> QED BY <1>5, <3>2, <3>3, Characters
    <2> QED BY <1>5, <2>1, EndsShort
  <1> QED BY <1>4, <1>5 DEF expect_two, Finish, Unchecked


\* One character or two, and where the parser is behind them.
LEMMA CharIs ==
  ASSUME str \in Words, NEW L, Len(str) = L, NEW i \in Nat \ {0}, NEW x \in Char
  PROVE  /\ StartsWith(i, <<x>>) <=> i <= L /\ str[i] = x
         /\ StartsWith(i, <<x>>) => Skip(i, <<x>>) = i + 1
         /\ ~StartsWith(i, <<x>>) => Skip(i, <<x>>) = i
  <1>1. PICK word : word = <<x>>
    OBVIOUS
  <1>2. word \in Words /\ Len(word) = 1 /\ x = word[1]
    BY <1>1 DEF Words
  <1>3. StartsWith(i, word) <=> i <= Len(str) /\ str[i] = x
    BY ONLY <1>2, str \in Words, i \in Nat \ {0}, OneIs
  <1>4. StartsWith(i, word) => Skip(i, word) = i + 1
    BY <1>2, Zenon DEF Skip
  <1>5. ~StartsWith(i, word) => Skip(i, word) = i
    BY Zenon DEF Skip
  <1> QED BY <1>1, <1>3, <1>4, <1>5, Zenon

LEMMA PairIs ==
  ASSUME str \in Words, NEW L, Len(str) = L, NEW i \in Nat \ {0}, NEW x \in Char, NEW y \in Char
  PROVE  /\ StartsWith(i, <<x, y>>) <=> i + 1 <= L /\ str[i] = x /\ str[i + 1] = y
         /\ StartsWith(i, <<x, y>>) => Skip(i, <<x, y>>) = i + 2
         /\ ~StartsWith(i, <<x, y>>) => Skip(i, <<x, y>>) = i
  <1>1. PICK word : word = <<x, y>>
    OBVIOUS
  <1>2. word \in Words /\ Len(word) = 2 /\ x = word[1] /\ y = word[2]
    BY <1>1 DEF Words
  <1>3. StartsWith(i, word) <=> i + 1 <= Len(str) /\ str[i] = x /\ str[i + 1] = y
    BY ONLY <1>2, str \in Words, i \in Nat \ {0}, TwoAre
  <1>4. StartsWith(i, word) => Skip(i, word) = i + 2
    BY <1>2, Zenon DEF Skip
  <1>5. ~StartsWith(i, word) => Skip(i, word) = i
    BY Zenon DEF Skip
  <1> QED BY <1>1, <1>3, <1>4, <1>5, Zenon

LEMMA LineEndIs ==
  ASSUME str \in Words, NEW L, Len(str) = L, NEW i \in Nat \ {0}
  PROVE  StartsWith(i, CRLF) <=> i + 1 <= L /\ str[i] = CR /\ str[i + 1] = LF
  <1>1. CR \in Char /\ LF \in Char
    BY SentAssumption DEF Letters
  <1> QED BY <1>1, PairIs, Zenon DEF CRLF

\* The parser never goes back when it reads the version.
LEMMA VersionForward ==
  ASSUME str \in Words, NEW i \in Nat \ {0}, NEW major, major = Skip(i, HTTP), NEW minor, minor = Skip(major + 1, <<"1", ".">>)
  PROVE  /\ major \in Nat \ {0} /\ minor \in Nat \ {0} /\ i <= major /\ i < minor
         /\ i < Skip(major + 1, <<".", "0">>) /\ i < minor + 1 /\ i < Skip(minor + 1, <<"1">>)
  <1>1. HTTP \in Words /\ Len(HTTP) > 0
    BY HTTPWord
  <1>2. <<"1", ".">> \in Words /\ Len(<<"1", ".">>) > 0 /\ <<".", "0">> \in Words /\ Len(<<".", "0">>) > 0
        /\ <<"1">> \in Words /\ Len(<<"1">>) > 0
    BY VersionMarks
  <1>3. major \in Nat \ {0} /\ i <= major
    BY <1>1, SkipInside, Zenon
  <1>4. PICK j \in Nat \ {0} : j = major + 1 /\ i < j
    BY <1>3
  <1>5. Skip(j, <<"1", ".">>) \in Nat \ {0} /\ j <= Skip(j, <<"1", ".">>)
    BY <1>2, SkipInside, Zenon
  <1>6. Skip(j, <<".", "0">>) \in Nat \ {0} /\ j <= Skip(j, <<".", "0">>)
    BY <1>2, SkipInside, Zenon
  <1>7. minor = Skip(j, <<"1", ".">>)
    BY <1>4
  <1>8. minor \in Nat \ {0} /\ j <= minor
    BY <1>5, <1>7, Zenon
  <1>9. PICK k \in Nat \ {0} : k = minor + 1 /\ i < k
    BY <1>4, <1>8
  <1>10. Skip(k, <<"1">>) \in Nat \ {0} /\ k <= Skip(k, <<"1">>)
    BY <1>2, SkipInside, Zenon
  <1>11. PICK x, y \in Nat : x = Skip(j, <<".", "0">>) /\ y = Skip(k, <<"1">>)
    BY <1>6, <1>10
  <1>12. j <= x /\ k <= y
    BY <1>6, <1>10, <1>11, Zenon
  <1>13. i < x /\ i < y
    BY <1>4, <1>9, <1>12
  <1>14. x = Skip(major + 1, <<".", "0">>) /\ y = Skip(minor + 1, <<"1">>)
    BY <1>4, <1>9, <1>11, Zenon
  <1>15. i < Skip(major + 1, <<".", "0">>) /\ i < Skip(minor + 1, <<"1">>)
    BY <1>13, <1>14, Zenon
  <1> QED BY <1>3, <1>4, <1>8, <1>9, <1>15

\* How the version of a whole request line is read.
LEMMA VersionRead ==
  ASSUME NEW L, NEW s, NEW e, NEW h, NEW p, Chart(L, s, e, h, p), L > e + 9,
         NEW major, major = Skip(e + 1, HTTP), NEW minor, minor = Skip(major + 1, <<"1", ".">>)
  PROVE  /\ ~AtEnd(major) /\ ~AtEnd(minor) /\ ~StartsWith(minor, <<"0">>)
         /\ StartsWith(major, <<"2">>) <=> sent.version = "HTTP_2_0"
         /\ sent.version = "HTTP_2_0" => Skip(major + 1, <<".", "0">>) = e + 9
         /\ Skip(minor + 1, <<"1">>) = IF sent.version = "HTTP_1_1" THEN e + 9 ELSE e + 8
  <1>1. L \in Nat /\ e \in Nat /\ str \in Words /\ Len(str) = L
    BY ChartRead, Zenon
  <1>2. /\ \A k \in 1 .. 5 : e + k <= L => str[e + k] = HTTP[k]
        /\ e + 6 <= L => (str[e + 6] = "2" <=> sent.version = "HTTP_2_0")
        /\ e + 7 <= L => str[e + 7] = "."
        /\ e + 8 <= L => str[e + 8] \in {"0", "1"} /\ (str[e + 8] = "1" <=> sent.version = "HTTP_1_1")
    BY DEF Chart, Shows
  <1>3. /\ \A k \in 1 .. 5 : str[e + k] = HTTP[k]
        /\ str[e + 6] = "2" <=> sent.version = "HTTP_2_0"
        /\ str[e + 7] = "." /\ str[e + 8] \in {"0", "1"}
        /\ str[e + 8] = "1" <=> sent.version = "HTTP_1_1"
    BY <1>1, <1>2
  <1>4. "0" \in Char /\ "1" \in Char /\ "2" \in Char /\ "." \in Char
    BY SentAssumption DEF Letters
  <1>5. PICK i1, i6, i7, i8 \in Nat \ {0} : i1 = e + 1 /\ i6 = e + 6 /\ i7 = e + 7 /\ i8 = e + 8
    BY <1>1
  <1>6. major = i6
    <2>1. i1 + 5 <= L + 1 /\ \A k \in 1 .. 5 : str[i1 + k - 1] = HTTP[k]
      BY <1>1, <1>3, <1>5
    <2>2. i1 + Len(HTTP) <= Len(str) + 1 /\ \A k \in 1 .. Len(HTTP) : str[i1 + k - 1] = HTTP[k]
      BY <1>1, <2>1, HTTPWord, Zenon
    <2>3. StartsWith(i1, HTTP)
      BY <1>1, <2>2, HTTPWord, MeansStarts, Zenon
    <2>4. Skip(i1, HTTP) = i1 + 5
      BY <2>3, HTTPWord, Zenon DEF Skip
    <2> QED BY <1>1, <1>5, <2>4
  <1>7. StartsWith(i6, <<"2">>) <=> i6 <= L /\ str[i6] = "2"
    BY <1>1, <1>4, CharIs, Zenon
  <1>8. StartsWith(i7, <<"1", ".">>) <=> i7 + 1 <= L /\ str[i7] = "1" /\ str[i7 + 1] = "."
    <2>1. PICK x, y \in Char : x = "1" /\ y = "."
      BY <1>4
    <2>2. StartsWith(i7, <<x, y>>) <=> i7 + 1 <= L /\ str[i7] = x /\ str[i7 + 1] = y
      BY <1>1, PairIs, Zenon
    <2> QED BY ONLY <2>1, <2>2, Zenon
  <1>9. ~StartsWith(i7, <<"1", ".">>)
    BY <1>3, <1>5, <1>8
  <1>10. minor = i7
    <2>1. major + 1 = i7
      BY <1>1, <1>5, <1>6
    <2> QED BY <1>9, <2>1, Zenon DEF Skip
  <1>11. StartsWith(i7, <<"0">>) <=> i7 <= L /\ str[i7] = "0"
    BY <1>1, <1>4, CharIs, Zenon
  <1>12. StartsWith(i7, <<".", "0">>) <=> i7 + 1 <= L /\ str[i7] = "." /\ str[i7 + 1] = "0"
    BY <1>1, <1>4, PairIs, Zenon
  <1>13. StartsWith(i8, <<"1">>) <=> i8 <= L /\ str[i8] = "1"
    BY <1>1, <1>4, CharIs, Zenon
  <1>14. ~AtEnd(major) /\ ~AtEnd(minor)
    BY <1>1, <1>5, <1>6, <1>10 DEF AtEnd
  <1>15. StartsWith(major, <<"2">>) <=> sent.version = "HTTP_2_0"
    BY <1>1, <1>3, <1>5, <1>6, <1>7
  <1>16. ~StartsWith(minor, <<"0">>)
    BY <1>3, <1>5, <1>10, <1>11
  <1>17. ASSUME sent.version = "HTTP_2_0" PROVE Skip(major + 1, <<".", "0">>) = e + 9
    <2>1. str[e + 8] = "0"
      BY <1>3, <1>17
    <2>2. i7 + 1 <= L /\ str[i7] = "." /\ str[i7 + 1] = "0"
      BY <1>1, <1>3, <1>5, <2>1
    <2>3. major + 1 = i7
      BY <1>1, <1>5, <1>6
    <2>4. Skip(i7, <<".", "0">>) = i7 + 2
      BY <1>1, <1>4, <1>12, <2>2, PairIs, Zenon
    <2>5. i7 + 2 = e + 9
      BY <1>1, <1>5
    <2> QED BY <2>3, <2>4, <2>5, Zenon
  <1>18. Skip(minor + 1, <<"1">>) = IF sent.version = "HTTP_1_1" THEN e + 9 ELSE e + 8
    <2>1. minor + 1 = i8
      BY <1>1, <1>5, <1>10
    <2>2. CASE sent.version = "HTTP_1_1"
      <3>1. StartsWith(i8, <<"1">>)
        BY <1>1, <1>3, <1>5, <1>13, <2>2
      <3>2. Skip(i8, <<"1">>) = i8 + 1
        BY <1>1, <1>4, <3>1, CharIs, Zenon
      <3> QED BY <1>1, <1>5, <2>1, <2>2, <3>2
    <2>3. CASE sent.version # "HTTP_1_1"
      <3>1. ~StartsWith(i8, <<"1">>)
        BY <1>3, <1>5, <1>13, <2>3
      <3>2. Skip(i8, <<"1">>) = i8
        BY <1>1, <1>4, <3>1, CharIs, Zenon
      <3> QED BY <1>1, <1>5, <2>1, <2>3, <3>2
    <2> QED BY <2>2, <2>3
  <1> QED BY <1>14, <1>15, <1>16, <1>17, <1>18

LEMMA VersionTracks ==
  ASSUME NEW L, NEW s, NEW e, NEW h, NEW p, Chart(L, s, e, h, p), Tracks(L, s, e, h, p),
         PlaceInvariant, version_string_to_enum
  PROVE  Tracks(L, s, e, h, p)'
  <1>1. /\ L \in Nat /\ s \in Nat /\ e \in Nat /\ h \in Nat /\ str \in Words /\ Len(str) = L
        /\ s \in 5 .. 9 /\ e > s /\ h >= e + 12
    BY ChartRead, Zenon
  <1>2. /\ pc = "version" /\ request.headers = NoHeaders /\ ShapeOf(request)
        /\ Lost(L, s, e) \/ (request.path = sent.path /\ at = e + 1)
    BY DEF PlaceInvariant, Typed, version_string_to_enum, Tracks
  <1>3. at \in 1 .. L + 1 /\ at \in Nat \ {0}
    BY <1>1, <1>2 DEF PlaceInvariant, Typed
  <1>4. PICK major : major = Skip(at, HTTP)
    OBVIOUS
  <1>5. PICK minor : minor = Skip(major + 1, <<"1", ".">>)
    OBVIOUS
  <1>6. /\ major \in Nat \ {0} /\ minor \in Nat \ {0} /\ at <= major /\ at < minor
        /\ at < Skip(major + 1, <<".", "0">>) /\ at < minor + 1 /\ at < Skip(minor + 1, <<"1">>)
    BY <1>1, <1>3, <1>4, <1>5, VersionForward, Zenon
  <1>7. \/ /\ StartsWith(major, <<"2">>)
           /\ Step("end", Skip(major + 1, <<".", "0">>)) /\ request' = [request EXCEPT !.version = "HTTP_2_0"]
        \/ /\ ~StartsWith(major, <<"2">>) /\ StartsWith(minor, <<"0">>)
           /\ Step("end", minor + 1) /\ request' = [request EXCEPT !.version = "HTTP_1_0"]
        \/ /\ ~AtEnd(minor) /\ ~StartsWith(major, <<"2">>) /\ ~StartsWith(minor, <<"0">>)
           /\ Step("end", Skip(minor + 1, <<"1">>)) /\ request' = [request EXCEPT !.version = "HTTP_1_1"]
        \/ (AtEnd(major) \/ (~StartsWith(major, <<"2">>) /\ AtEnd(minor))) /\ Fail("throws")
    BY <1>4, <1>5, Zenon DEF version_string_to_enum
  <1>8. CASE L <= e + 9
    <2>1. CASE Fail("throws")
      <3>1. L < h
        BY <1>1, <1>8
      <3> QED BY <2>1, <3>1, EndsShort DEF Fail, Finish
    <2>2. CASE ~Fail("throws")
      <3>1. pc' = "end" /\ at < at'
        BY <1>6, <1>7, <2>2, Zenon DEF Step
      <3>2. request'.headers = NoHeaders
        <4>1. PICK v : request' = [request EXCEPT !.version = v]
          BY <1>7, <2>2, Zenon
        <4> QED BY <1>2, <4>1 DEF ShapeOf
      <3>3. at' \in Nat
        <4>1. Typed'
          BY VersionPlaced DEF PlaceInvariant
        <4>2. str' \in Words /\ at' \in 1 .. Len(str') + 1
          BY <3>1, <4>1 DEF Typed
        <4> QED BY <4>2 DEF Words
      <3>4. CASE Lost(L, s, e)
        <4>1. L < e /\ at' >= s - 1
          BY <1>1, <1>3, <3>1, <3>3, <3>4 DEF Lost
        <4>2. Lost(L, s, e)'
          BY <4>1 DEF Lost
        <4> QED BY <3>1, <3>2, <4>2 DEF Tracks
      <3>5. CASE at = e + 1
        <4>1. at' > e
          BY <1>1, <3>1, <3>3, <3>5
        <4> QED BY <1>8, <3>1, <3>2, <4>1 DEF Tracks
      <3> QED BY <1>2, <3>4, <3>5
    <2> QED BY <2>1, <2>2
  <1>9. CASE L > e + 9
    <2>1. at = e + 1 /\ request.path = sent.path
      BY <1>1, <1>2, <1>9 DEF Lost
    <2>2. major = Skip(e + 1, HTTP)
      BY <1>4, <2>1
    <2>3. /\ ~AtEnd(major) /\ ~AtEnd(minor) /\ ~StartsWith(minor, <<"0">>)
          /\ StartsWith(major, <<"2">>) <=> sent.version = "HTTP_2_0"
          /\ sent.version = "HTTP_2_0" => Skip(major + 1, <<".", "0">>) = e + 9
          /\ Skip(minor + 1, <<"1">>) = IF sent.version = "HTTP_1_1" THEN e + 9 ELSE e + 8
      BY <1>5, <1>9, <2>2, VersionRead, Zenon
    <2>4. sent.version \in {"HTTP_1_0", "HTTP_1_1", "HTTP_2_0"}
      <3>1. sent.version \in DOMAIN HTTP_VERSION_STRINGS
        BY SentAssumption DEF Chart
      <3> QED BY <3>1 DEF HTTP_VERSION_STRINGS
    <2>5. CASE sent.version = "HTTP_2_0"
      <3>1. pc' = "end" /\ at' = e + 9 /\ sent' = sent /\ request' = [request EXCEPT !.version = "HTTP_2_0"]
        BY <1>7, <2>3, <2>5, Zenon DEF Step
      <3>2. request'.headers = NoHeaders /\ request'.path = sent.path /\ request'.version = "HTTP_2_0"
        BY <1>2, <2>1, <3>1 DEF ShapeOf
      <3>3. LineRead'
        BY <2>5, <3>1, <3>2 DEF LineRead
      <3> QED BY <1>9, <3>1, <3>2, <3>3 DEF Tracks
    <2>6. CASE sent.version # "HTTP_2_0"
      <3>1. pc' = "end" /\ at' = Skip(minor + 1, <<"1">>) /\ sent' = sent /\ request' = [request EXCEPT !.version = "HTTP_1_1"]
        BY <1>7, <2>3, <2>6, Zenon DEF Step
      <3>2. request'.headers = NoHeaders /\ request'.path = sent.path /\ request'.version = "HTTP_1_1"
        BY <1>2, <2>1, <3>1 DEF ShapeOf
      <3>3. CASE sent.version = "HTTP_1_1"
        <4>1. at' = e + 9
          BY <2>3, <3>1, <3>3
        <4>2. LineRead'
          BY <3>1, <3>2, <3>3 DEF LineRead
        <4> QED BY <1>9, <3>1, <3>2, <4>1, <4>2 DEF Tracks
      <3>4. CASE sent.version = "HTTP_1_0"
        <4>1. at' = e + 8 /\ sent'.version = "HTTP_1_0"
          BY <2>3, <3>1, <3>4
        <4> QED BY <1>9, <3>1, <3>2, <4>1 DEF Tracks
      <3> QED BY <2>4, <2>6, <3>3, <3>4
    <2> QED BY <2>5, <2>6
  <1> QED BY <1>1, <1>8, <1>9

\* The line ends where it ended on the way.
LEMMA EndTracks ==
  ASSUME NEW L, NEW s, NEW e, NEW h, NEW p, Chart(L, s, e, h, p), Tracks(L, s, e, h, p),
         PlaceInvariant, expect_end
  PROVE  Tracks(L, s, e, h, p)'
  <1>1. /\ L \in Nat /\ s \in Nat /\ e \in Nat /\ h \in Nat /\ str \in Words /\ Len(str) = L
        /\ s \in 5 .. 9 /\ e > s /\ h >= e + 12
    BY ChartRead, Zenon
  <1>2. /\ pc = "end" /\ request.headers = NoHeaders /\ request' = request
        /\ \/ Lost(L, s, e)
           \/ L <= e + 9 /\ at > e
           \/ L > e + 9 /\ sent.version = "HTTP_1_0" /\ at = e + 8
           \/ L > e + 9 /\ LineRead /\ at = e + 9
    BY DEF expect_end, Tracks
  <1>3. at \in 1 .. L + 1 /\ at \in Nat \ {0}
    BY <1>1, <1>2 DEF PlaceInvariant, Typed
  <1>4. StartsWith(at, CRLF) <=> at + 1 <= L /\ str[at] = CR /\ str[at + 1] = LF
    BY <1>1, <1>3, LineEndIs, Zenon
  <1>5. \/ StartsWith(at, CRLF) /\ pc' = "headers" /\ at' = at + 2 /\ sent' = sent
        \/ ~StartsWith(at, CRLF) /\ pc' = "done" /\ outcome' = "error" /\ sent' = sent
    BY DEF expect_end, Step, Finish
  <1>6. SP # CR /\ HT # CR
    BY DEF SP, HT, CR
  <1>7. /\ L >= s - 1 => str[s - 1] = SP
        /\ \A k \in s .. e - 1 : k <= L => str[k] # CR
        /\ \A k \in 1 .. 8 : e + k <= L => str[e + k] # CR
        /\ e + 9 <= L => str[e + 9] = CR
        /\ e + 10 <= L => str[e + 10] = LF
    BY DEF Chart, Shows
  <1>8. CASE Lost(L, s, e) \/ (L <= e + 9 /\ at > e)
    <2>1. ~StartsWith(at, CRLF)
      <3> SUFFICES ASSUME at + 1 <= L, str[at] = CR PROVE FALSE
        BY <1>4
      <3>1. CASE Lost(L, s, e)
        BY <1>1, <1>3, <1>6, <1>7, <3>1 DEF Lost
      <3>2. CASE L <= e + 9 /\ at > e
        <4>1. PICK k \in 1 .. 8 : at = e + k
          <5>1. at - e \in 1 .. 8 /\ at = e + (at - e)
            BY <1>1, <1>3, <3>2
          <5> QED BY <5>1
        <4> QED BY <1>1, <1>7, <4>1
      <3> QED BY <1>8, <3>1, <3>2
    <2>2. L < h
      BY <1>1, <1>8 DEF Lost
    <2> QED BY <1>5, <2>1, <2>2, EndsShort
  <1>9. CASE L > e + 9 /\ sent.version = "HTTP_1_0" /\ at = e + 8
    <2>1. ~StartsWith(at, CRLF)
      BY <1>1, <1>4, <1>7, <1>9
    <2>2. pc' = "done" /\ outcome' = "error" /\ sent'.version = "HTTP_1_0"
      BY <1>5, <1>9, <2>1
    <2> QED BY <2>2 DEF Tracks, Ended
  <1>10. CASE L > e + 9 /\ LineRead /\ at = e + 9
    <2>1. StartsWith(at, CRLF)
      BY <1>1, <1>4, <1>7, <1>10
    <2>2. pc' = "headers" /\ at' = e + 11 /\ sent' = sent
      BY <1>1, <1>5, <1>10, <2>1
    <2>3. LineRead'
      BY <1>2, <1>10, <2>2 DEF LineRead
    <2>4. p[1] = e + 11 /\ Len(sent.headers) \in Nat
      <3>1. p[1] = e + 8 + 3 /\ Len(sent.headers) \in Nat
        BY DEF Chart, Charted
      <3> QED BY <1>1, <3>1
    <2>5. HeadersRead(0)'
      <3>1. {sent'.headers[i].key : i \in 1 .. 0} = {}
        OBVIOUS
      <3>2. request'.headers = [k \in {} |-> request'.headers[k]]
        BY <1>2 DEF NoHeaders
      <3> QED BY <3>1, <3>2 DEF HeadersRead, MapOf
    <2>6. 0 \in 0 .. Len(sent'.headers) /\ at' = p[0 + 1]
      BY <2>2, <2>4
    <2> QED BY <2>2, <2>3, <2>5, <2>6 DEF Tracks
  <1> QED BY <1>2, <1>8, <1>9, <1>10


\* What parse_header makes of a header.
Found(K, V, n, c) ==
  /\ Find(at, {CR, LF}) # {} /\ HeaderEnd = c /\ Gap # {} /\ NameEnd = n /\ n >= at /\ str[n] = ":"
  /\ SubSeq(str, at, n - 1) = K /\ SubSeq(str, n + 2, c - 1) = V

LEMMA HeaderFound ==
  ASSUME str \in Words, NEW L \in Nat, Len(str) = L, NEW K, NEW V, NEW n, NEW c, HeaderShows(L, K, V, at, n, c)
  PROVE  /\ at <= L => str[at] # CR
         /\ L < c => Find(at, {CR, LF}) = {}
         /\ L >= c => Found(K, V, n, c)
  <1>1. /\ at \in Nat \ {0} /\ n \in Nat /\ c \in Nat /\ at <= n /\ n + 2 <= c
        /\ K \in Words /\ V \in Words /\ Len(K) = n - at /\ Len(V) = c - n - 2
    BY DEF HeaderShows
  <1>2. /\ \A k \in at .. n - 1 : k <= L => str[k] \notin {SP, CR, LF} /\ str[k] = K[k - at + 1]
        /\ n <= L => str[n] = ":"
        /\ n + 1 <= L => str[n + 1] = SP
        /\ \A k \in n + 2 .. c - 1 : k <= L => str[k] \notin {CR, LF} /\ str[k] = V[k - n - 1]
        /\ c <= L => str[c] = CR
    BY DEF HeaderShows
  <1>3. ":" \notin {SP, CR, LF} /\ SP \notin {CR, LF} /\ CR # SP
    BY DEF SP, CR, LF
  <1>4. ASSUME NEW k \in at .. c - 1, k <= L PROVE str[k] \notin {CR, LF}
    <2>1. k \in at .. n - 1 \/ k = n \/ k = n + 1 \/ k \in n + 2 .. c - 1
      BY <1>1
    <2> QED BY <1>2, <1>3, <1>4, <2>1
  <1>5. ASSUME NEW k \in at .. n, k <= L PROVE str[k] # SP
    <2>1. k \in at .. n - 1 \/ k = n
      BY <1>1
    <2> QED BY <1>2, <1>3, <1>5, <2>1
  <1>6. ASSUME at <= L PROVE str[at] # CR
    <2>1. at \in at .. c - 1
      BY <1>1
    <2> QED BY <1>4, <1>6, <2>1
  <1>7. ASSUME L < c PROVE Find(at, {CR, LF}) = {}
    <2> SUFFICES ASSUME NEW k \in at .. Len(str), str[k] \in {CR, LF} PROVE FALSE
      BY DEF Find
    <2>1. k \in at .. c - 1 /\ k <= L
      BY <1>1, <1>7
    <2> QED BY <1>4, <2>1
  <1>8. ASSUME L >= c PROVE Found(K, V, n, c)
    <2>1. c \in Find(at, {CR, LF})
      BY <1>1, <1>2, <1>8 DEF Find
    <2>2. HeaderEnd = c
      <3>1. PICK m : m = Min(Find(at, {CR, LF}))
        OBVIOUS
      <3>2. m \in at .. Len(str) /\ str[m] \in {CR, LF} /\ \A j \in at .. m - 1 : str[j] \notin {CR, LF}
        <4>1. Find(at, {CR, LF}) # {}
          BY <2>1
        <4> QED BY <1>1, <3>1, <4>1, FindIs
      <3>3. ~(m < c)
        BY <1>1, <1>4, <3>2
      <3>4. ~(m > c)
        BY <1>1, <1>2, <1>8, <3>2
      <3>5. m = c
        BY <1>1, <3>2, <3>3, <3>4
      <3> QED BY <3>1, <3>5 DEF HeaderEnd
    <2>3. PICK S : S = Gap /\ S = {k \in at .. c : str[k] = SP}
      <3>1. Gap = Find(at, {SP}) \cap (at .. c)
        BY <2>2, Zenon DEF Gap
      <3>2. Find(at, {SP}) \cap (at .. c) = {k \in at .. c : str[k] = SP}
        BY <1>1, <1>8 DEF Find
      <3> QED BY <3>1, <3>2
    <2>4. n + 1 \in S /\ S \subseteq Nat
      BY <1>1, <1>2, <1>8, <2>3
    <2>5. PICK m : m = Min(S)
      OBVIOUS
    <2>6. m \in S /\ \A k \in S : m <= k
      BY <2>4, <2>5, FirstPosition
    <2>7. m = n + 1
      <3>1. m \in at .. c /\ str[m] = SP /\ m <= n + 1
        BY <2>3, <2>4, <2>6
      <3>2. ~(m <= n)
        BY <1>1, <1>5, <1>8, <3>1
      <3> QED BY <1>1, <3>1, <3>2
    <2>8. NameEnd = n
      <3>1. Gap # {} /\ Min(Gap) = n + 1
        BY <2>3, <2>4, <2>5, <2>7, Zenon
      <3>2. NameEnd = (n + 1) - 1
        BY <3>1, Zenon DEF NameEnd
      <3> QED BY <1>1, <3>2
    <2>9. SubSeq(str, at, n - 1) = K
      <3>1. PICK b \in Nat : b = n - 1
        BY <1>1
      <3>2. b <= Len(str) /\ at <= b + 1 /\ Len(K) = b - at + 1
        BY <1>1, <1>8, <3>1
      <3>3. \A k \in at .. b : str[k] = K[k - at + 1]
        BY <1>1, <1>2, <1>8, <3>1
      <3>4. PICK a \in Nat \ {0} : a = at
        BY <1>1
      <3>5. SubSeq(str, a, b) = K
        <4>1. a <= b + 1 /\ Len(K) = b - a + 1 /\ \A k \in a .. b : str[k] = K[k - a + 1]
          BY <3>2, <3>3, <3>4, Zenon
        <4> QED BY <1>1, <3>2, <4>1, PieceIs, Zenon
      <3> QED BY <3>1, <3>4, <3>5, Zenon
    <2>10. SubSeq(str, n + 2, c - 1) = V
      <3>1. PICK a \in Nat \ {0} : a = n + 2
        BY <1>1
      <3>2. PICK b \in Nat : b = c - 1
        BY <1>1
      <3>3. b <= Len(str) /\ a <= b + 1 /\ Len(V) = b - a + 1
        BY <1>1, <1>8, <3>1, <3>2
      <3>4. ASSUME NEW k \in a .. b PROVE str[k] = V[k - a + 1]
        <4>1. k \in n + 2 .. c - 1 /\ k <= L /\ k - a + 1 = k - n - 1
          BY <1>1, <1>8, <3>1, <3>2
        <4> QED BY <1>2, <4>1
      <3>5. SubSeq(str, a, b) = V
        BY <1>1, <3>3, <3>4, PieceIs, Zenon
      <3> QED BY <3>1, <3>2, <3>5, Zenon
    <2>11. n >= at /\ str[n] = ":"
      BY <1>1, <1>2, <1>8
    <2>12. Find(at, {CR, LF}) # {} /\ Gap # {}
      BY <2>1, <2>3, <2>4
    <2> QED BY <2>2, <2>8, <2>9, <2>10, <2>11, <2>12, Zenon DEF Found
  <1> QED BY <1>6, <1>7, <1>8

\* A header more in the map.
Extended(m, K, V) == [k \in DOMAIN m \cup {K} |-> IF k = K THEN V ELSE m[k]]

LEMMA MapGrows ==
  ASSUME NEW H, NEW j \in Nat, NEW m, NEW M, NEW K, NEW V, K = H[j + 1].key, V = H[j + 1].value,
         MapOf(H, j, m), \A i \in 1 .. j : H[i].key # K,
         M = Extended(m, K, V)
  PROVE  MapOf(H, j + 1, M)
  <1>0. /\ m = [k \in {H[i].key : i \in 1 .. j} |-> m[k]]
        /\ \A i \in 1 .. j : m[H[i].key] = H[i].value
    BY DEF MapOf
  <1>1. PICK D : D = {H[i].key : i \in 1 .. j}
    OBVIOUS
  <1>2. DOMAIN m = D
    BY <1>0, <1>1
  <1>3. {H[i].key : i \in 1 .. j + 1} = D \cup {K}
    <2>1. ASSUME NEW x \in {H[i].key : i \in 1 .. j + 1} PROVE x \in D \cup {K}
      <3>1. PICK i \in 1 .. j + 1 : x = H[i].key
        OBVIOUS
      <3>2. i \in 1 .. j \/ i = j + 1
        OBVIOUS
      <3> QED BY <1>1, <3>1, <3>2
    <2>2. ASSUME NEW x \in D PROVE x \in {H[i].key : i \in 1 .. j + 1}
      <3>1. PICK i \in 1 .. j : x = H[i].key
        BY <1>1
      <3>2. i \in 1 .. j + 1
        OBVIOUS
      <3> QED BY <3>1, <3>2
    <2>3. K \in {H[i].key : i \in 1 .. j + 1}
      <3>1. j + 1 \in 1 .. j + 1
        OBVIOUS
      <3> QED BY <3>1
    <2> QED BY <2>1, <2>2, <2>3
  <1>4. M = [k \in D \cup {K} |-> IF k = K THEN V ELSE m[k]]
    BY <1>2 DEF Extended
  <1>5. M = [k \in D \cup {K} |-> M[k]]
    BY <1>4
  <1>6. ASSUME NEW i \in 1 .. j + 1 PROVE M[H[i].key] = H[i].value
    <2>1. CASE i = j + 1
      BY <1>4, <2>1
    <2>2. CASE i \in 1 .. j
      <3>1. H[i].key \in D /\ H[i].key # K
        BY <1>1, <2>2
      <3>2. M[H[i].key] = m[H[i].key]
        BY <1>4, <3>1
      <3> QED BY <1>0, <2>2, <3>2
    <2> QED BY <2>1, <2>2
  <1> QED BY <1>3, <1>5, <1>6 DEF MapOf

\* All headers in the map.
LEMMA MapIs ==
  ASSUME NEW r, NEW N, DOMAIN r.headers = 1 .. N, NEW m, MapOf(r.headers, N, m)
  PROVE  m = [k \in Keys(r) |-> r.headers[CHOOSE i \in DOMAIN r.headers : r.headers[i].key = k].value]
  <1>0. /\ m = [k \in {r.headers[i].key : i \in 1 .. N} |-> m[k]]
        /\ \A i \in 1 .. N : m[r.headers[i].key] = r.headers[i].value
    BY DEF MapOf
  <1>1. Keys(r) = {r.headers[i].key : i \in 1 .. N}
    BY DEF Keys
  <1>2. ASSUME NEW k \in Keys(r)
        PROVE  m[k] = r.headers[CHOOSE i \in DOMAIN r.headers : r.headers[i].key = k].value
    <2>1. PICK x : x = CHOOSE i \in DOMAIN r.headers : r.headers[i].key = k
      OBVIOUS
    <2>2. \E i \in DOMAIN r.headers : r.headers[i].key = k
      BY DEF Keys
    <2>3. x \in DOMAIN r.headers /\ r.headers[x].key = k
      BY <2>1, <2>2, Zenon
    <2>4. m[r.headers[x].key] = r.headers[x].value
      BY <1>0, <2>3
    <2>5. m[k] = r.headers[x].value
      BY ONLY <2>3, <2>4, Zenon
    <2> QED BY ONLY <2>1, <2>5, Zenon
  <1>3. m = [k \in Keys(r) |-> m[k]]
    BY <1>0, <1>1, Zenon
  <1>4. m = [k \in Keys(r) |-> r.headers[CHOOSE i \in DOMAIN r.headers : r.headers[i].key = k].value]
    BY ONLY <1>2, <1>3
  <1> QED BY <1>4, Zenon


\* j of the N headers are read, and behind the last one the line end is next.
AtHeader(L, h, p, N, j) ==
  /\ N = Len(sent.headers) /\ DOMAIN sent.headers = 1 .. N /\ j \in 0 .. N
  /\ LineRead /\ at = p[j + 1] /\ HeadersRead(j)
  /\ j = N => /\ at = h - 1
              /\ h - 1 <= L => str[h - 1] = CR
              /\ h <= L => str[h] = LF

\* Where the parser is among the headers.
LEMMA AmongHeaders ==
  ASSUME NEW L, NEW s, NEW e, NEW h, NEW p, Chart(L, s, e, h, p), Tracks(L, s, e, h, p), pc = "headers"
  PROVE  \E N, j \in Nat : AtHeader(L, h, p, N, j)
  <1>1. L \in Nat /\ e \in Nat /\ h \in Nat /\ h >= e + 12
    BY ChartRead, Zenon
  <1>2. PICK H, W : H = sent.headers /\ W = Wire(sent)
    OBVIOUS
  <1>3. PICK N \in Nat : N = Len(H)
    BY <1>2, Zenon DEF Chart, Charted
  <1>4. DOMAIN H = 1 .. N
    <2>1. H \in Seq([key : Seq(Char \ {SP, CR, LF}), value : Seq(Char \ {CR, LF})])
      BY <1>2, LinesAre, Zenon DEF Chart
    <2>2. DOMAIN H = 1 .. Len(H)
      BY <2>1
    <2> QED BY <1>3, <2>2
  <1>5. LineRead /\ \E j \in 0 .. N : at = p[j + 1] /\ HeadersRead(j)
    BY <1>2, <1>3, Zenon DEF Tracks
  <1>6. PICK j \in 0 .. N : at = p[j + 1] /\ HeadersRead(j)
    BY <1>5
  <1>7. ASSUME j = N
        PROVE  /\ at = h - 1
               /\ h - 1 <= L => str[h - 1] = CR
               /\ h <= L => str[h] = LF
    <2>1. h = p[N + 1] + 1 /\ W[h - 1] = CR /\ W[h] = LF /\ p \in [1 .. N + 1 -> Nat]
      BY <1>2, <1>3, Zenon DEF Chart, Charted
    <2>2. PICK q \in Nat : q = p[N + 1]
      BY <2>1
    <2>3. at = q /\ h = q + 1
      BY <1>6, <1>7, <2>1, <2>2, Zenon
    <2>4. \A k \in 1 .. L : str[k] = W[k]
      BY <1>2, Zenon DEF Chart
    <2> QED BY <1>1, <2>1, <2>3, <2>4
  <1>8. AtHeader(L, h, p, N, j)
    BY <1>2, <1>3, <1>4, <1>5, <1>6, <1>7, Zenon DEF AtHeader
  <1>9. j \in Nat
    OBVIOUS
  <1> QED BY <1>8, <1>9

LEMMA HeaderTracks ==
  ASSUME NEW L, NEW s, NEW e, NEW h, NEW p, Chart(L, s, e, h, p), Tracks(L, s, e, h, p),
         PlaceInvariant, parse_header
  PROVE  Tracks(L, s, e, h, p)'
  <1>1. L \in Nat /\ h \in Nat /\ str \in Words /\ Len(str) = L /\ e \in Nat /\ h >= e + 12
    BY ChartRead, Zenon
  <1>2. /\ pc = "headers" /\ ShapeOf(request) /\ Find(at, {CR, LF}) # {} /\ NameEnd >= at /\ ~StartsWith(at, CRLF)
        /\ at \in 1 .. Len(str) + 1
    BY DEF PlaceInvariant, Typed, parse_header
  <1>3. PICK N, j \in Nat : AtHeader(L, h, p, N, j)
    BY <1>2, AmongHeaders, Zenon
  <1>4. /\ N = Len(sent.headers) /\ DOMAIN sent.headers = 1 .. N /\ j \in 0 .. N
        /\ LineRead /\ at = p[j + 1] /\ HeadersRead(j)
        /\ j = N => /\ at = h - 1
                    /\ h - 1 <= L => str[h - 1] = CR
                    /\ h <= L => str[h] = LF
    BY <1>3, Zenon DEF AtHeader
  <1>5. CASE j = N
    <2>1. PICK a \in Nat \ {0} : a = at /\ a = h - 1
      BY <1>1, <1>4, <1>5
    <2>2. L < h
      <3> SUFFICES ASSUME L >= h PROVE FALSE
        BY <1>1
      <3>1. a + 1 <= L /\ str[a] = CR /\ str[a + 1] = LF
        BY <1>1, <1>4, <1>5, <2>1
      <3>2. StartsWith(a, CRLF)
        BY <1>1, <3>1, LineEndIs, Zenon
      <3> QED BY <1>2, <2>1, <3>2, Zenon
    <2>3. PICK m : m = Min(Find(at, {CR, LF}))
      OBVIOUS
    <2>4. m \in at .. Len(str) /\ str[m] \in {CR, LF}
      BY <1>1, <1>2, <2>1, <2>3, FindIs
    <2>5. m = a /\ L = h - 1 /\ str[a] = CR
      BY <1>1, <1>4, <1>5, <2>1, <2>2, <2>4
    <2>6. HeaderEnd = a
      BY <2>3, <2>5, Zenon DEF HeaderEnd
    <2>7. Gap = {}
      <3>1. Gap = Find(at, {SP}) \cap (at .. a)
        BY <2>6, Zenon DEF Gap
      <3>2. CR # SP
        BY DEF CR, SP
      <3>3. ASSUME NEW k \in Gap PROVE FALSE
        <4>1. k \in at .. a /\ str[k] = SP
          BY <3>1 DEF Find
        <4>2. k = a
          BY <2>1, <4>1
        <4> QED BY <2>5, <3>2, <4>1, <4>2
      <3> QED BY <3>3
    <2>8. NameEnd = a - 1
      BY <2>6, <2>7, Zenon DEF NameEnd
    <2> QED BY <1>2, <2>1, <2>8
  <1>6. CASE j # N
    <2>1. PICK i \in 1 .. N : i = j + 1 /\ i + 1 \in 1 .. N + 1
      BY <1>4, <1>6
    <2>2. i \in 1 .. Len(sent.headers) /\ at = p[i]
      BY <1>4, <2>1
    <2>3. PICK K, V : K = sent.headers[i].key /\ V = sent.headers[i].value
      OBVIOUS
    <2>4. PICK n, c \in Nat : HeaderShows(L, K, V, at, n, c) /\ p[i + 1] = c + 2 /\ c + 3 <= h
      BY <2>2, <2>3, HeaderShown, Zenon
    <2>5. /\ L < c => Find(at, {CR, LF}) = {}
          /\ L >= c => Found(K, V, n, c)
      BY ONLY <1>1, <2>4, HeaderFound, Zenon
    <2>6. L >= c
      <3>1. ~(L < c)
        BY <1>2, <2>5, Zenon
      <3> QED BY <1>1, <3>1
    <2>7. HeaderEnd = c /\ Gap # {} /\ NameEnd = n /\ SubSeq(str, at, n - 1) = K /\ SubSeq(str, n + 2, c - 1) = V
      BY <2>5, <2>6, Zenon DEF Found
    <2>8. request' = SetHeader(request, K, V)
      <3>1. request' = SetHeader(request, SubSeq(str, at, NameEnd - 1),
                                 SubSeq(str, IF Gap = {} THEN at ELSE NameEnd + 2, HeaderEnd - 1))
        BY Zenon DEF parse_header
      <3>2. (IF Gap = {} THEN at ELSE NameEnd + 2) = n + 2
        BY <2>7, Zenon
      <3> QED BY <2>7, <3>1, <3>2, Zenon
    <2>9. CASE c < L
      <3>1. Step("headers", c + 2)
        <4>1. c # L /\ HeaderEnd = c /\ Len(str) = L
          BY <1>1, <2>7, <2>9
        <4> QED BY <4>1, Zenon DEF parse_header
      <3>2. pc' = "headers" /\ at' = p[i + 1] /\ sent' = sent
        BY <2>4, <3>1 DEF Step
      <3>3. PICK m : m = request.headers
        OBVIOUS
      <3>4. PICK M : M = Extended(m, K, V)
        OBVIOUS
      <3>5. request' = [request EXCEPT !.headers = M]
        BY <2>8, <3>3, <3>4, Zenon DEF SetHeader, Extended
      <3>6. request'.headers = M /\ request'.path = request.path /\ request'.version = request.version
        BY <1>2, <3>5 DEF ShapeOf
      <3>7. LineRead'
        BY <1>4, <3>2, <3>6 DEF LineRead
      <3>8. PICK H : H = sent.headers
        OBVIOUS
      <3>9. MapOf(H, j, m)
        BY <1>4, <3>3, <3>8, Zenon DEF HeadersRead
      <3>10. K = H[j + 1].key /\ V = H[j + 1].value
        BY <2>1, <2>3, <3>8
      <3>11. ASSUME NEW x \in 1 .. j PROVE H[x].key # K
        <4>1. x \in DOMAIN H /\ i \in DOMAIN H /\ x # i
          BY <1>4, <2>1, <3>8
        <4>2. \A y, z \in DOMAIN H : H[y].key = H[z].key => y = z
          BY <3>8, Zenon DEF Chart, Separable
        <4>3. H[x].key # H[i].key
          BY <4>1, <4>2
        <4> QED BY <2>3, <3>8, <4>3
      <3>12. MapOf(H, j + 1, M)
        <4>1. j \in Nat
          OBVIOUS
        <4> QED BY ONLY <3>4, <3>9, <3>10, <3>11, <4>1, MapGrows, Zenon
      <3>13. HeadersRead(i)'
        BY <2>1, <3>2, <3>6, <3>8, <3>12, Zenon DEF HeadersRead
      <3>14. i \in 0 .. Len(sent'.headers)
        BY <1>4, <3>2
      <3> QED BY <3>2, <3>7, <3>13, <3>14, Zenon DEF Tracks
    <2>10. CASE ~(c < L)
      <3>1. Step("behind", HeaderEnd + 2) \/ Finish("abort")
        BY <1>1, <2>7, <2>10, Zenon DEF parse_header
      <3>2. pc' = "behind" \/ (pc' = "done" /\ outcome' # "request")
        BY <3>1 DEF Step, Finish
      <3>3. L < h
        BY <1>1, <2>4, <2>10
      <3>4. CASE pc' = "behind"
        BY <3>3, <3>4 DEF Tracks
      <3> QED BY <3>2, <3>3, <3>4, EndsShort
    <2> QED BY <2>9, <2>10
  <1> QED BY <1>5, <1>6

\* Nothing behind the string is taken for a request.
LEMMA BehindTracks ==
  ASSUME NEW L, NEW s, NEW e, NEW h, NEW p, Chart(L, s, e, h, p), Tracks(L, s, e, h, p),
         PlaceInvariant, ReadsOn
  PROVE  Tracks(L, s, e, h, p)'
  <1>1. L < h
    BY DEF Tracks, ReadsOn
  <1>2. pc' = "done" /\ outcome' # "request"
    BY BehindFails DEF Fail, Finish
  <1> QED BY <1>1, <1>2, EndsShort

\* No header that is whole is refused.
LEMMA HeaderFailsTracks ==
  ASSUME NEW L, NEW s, NEW e, NEW h, NEW p, Chart(L, s, e, h, p), Tracks(L, s, e, h, p),
         PlaceInvariant, HeaderFails
  PROVE  Tracks(L, s, e, h, p)'
  <1>1. L \in Nat /\ h \in Nat /\ str \in Words /\ Len(str) = L /\ e \in Nat /\ h >= e + 12
    BY ChartRead, Zenon
  <1>2. pc = "headers" /\ ~StartsWith(at, CRLF) /\ pc' = "done" /\ outcome' # "request"
    BY DEF HeaderFails, Fail, Finish, Unchecked
  <1>3. PICK N, j \in Nat : AtHeader(L, h, p, N, j)
    BY <1>2, AmongHeaders, Zenon
  <1>4. /\ N = Len(sent.headers) /\ DOMAIN sent.headers = 1 .. N /\ j \in 0 .. N
        /\ LineRead /\ at = p[j + 1] /\ HeadersRead(j)
        /\ j = N => /\ at = h - 1
                    /\ h - 1 <= L => str[h - 1] = CR
                    /\ h <= L => str[h] = LF
    BY <1>3, Zenon DEF AtHeader
  <1>5. L < h
    <2> SUFFICES ASSUME L >= h PROVE FALSE
      BY <1>1
    <2>1. CASE j = N
      <3>1. PICK a \in Nat \ {0} : a = at /\ a = h - 1
        BY <1>1, <1>4, <2>1
      <3>2. a + 1 <= L /\ str[a] = CR /\ str[a + 1] = LF
        BY <1>1, <1>4, <2>1, <3>1
      <3>3. StartsWith(a, CRLF)
        BY <1>1, <3>2, LineEndIs, Zenon
      <3> QED BY <1>2, <3>1, <3>3, Zenon
    <2>2. CASE j # N
      <3>1. PICK i \in 1 .. N : i = j + 1
        BY <1>4, <2>2
      <3>2. i \in 1 .. Len(sent.headers) /\ at = p[i]
        BY <1>4, <3>1
      <3>3. PICK K, V : K = sent.headers[i].key /\ V = sent.headers[i].value
        OBVIOUS
      <3>4. PICK n, c \in Nat : HeaderShows(L, K, V, at, n, c) /\ p[i + 1] = c + 2 /\ c + 3 <= h
        BY <3>2, <3>3, HeaderShown, Zenon
      <3>5. L >= c
        BY <1>1, <3>4
      <3>6. Find(at, {CR, LF}) # {} /\ Gap # {} /\ NameEnd = n /\ n >= at /\ str[n] = ":"
        <4>1. Found(K, V, n, c)
          BY ONLY <1>1, <3>4, <3>5, HeaderFound, Zenon
        <4> QED BY <4>1, Zenon DEF Found
      <3>7. ~(NameEnd < at) /\ str[NameEnd] = ":"
        <4>1. n \in Nat /\ at \in Nat
          BY <3>4 DEF HeaderShows
        <4> QED BY <3>6, <4>1
      <3> QED BY <3>6, <3>7, Zenon DEF HeaderFails
    <2> QED BY <2>1, <2>2
  <1> QED BY <1>2, <1>5, EndsShort

\* The headers are all read when the body is.
LEMMA ContentTracks ==
  ASSUME NEW L, NEW s, NEW e, NEW h, NEW p, Chart(L, s, e, h, p), Tracks(L, s, e, h, p),
         PlaceInvariant, Delivered, SetContent
  PROVE  Tracks(L, s, e, h, p)'
  <1>1. L \in Nat /\ h \in Nat /\ str \in Words /\ Len(str) = L /\ e \in Nat /\ h >= e + 12
    BY ChartRead, Zenon
  <1>2. /\ pc = "headers" /\ StartsWith(at, CRLF) /\ request' = [request EXCEPT !.body = Rest(at + 2)]
        /\ pc' = "done" /\ outcome' = "request" /\ sent' = sent /\ str' = str
    BY DEF SetContent, Finish
  <1>3. PICK N, j \in Nat : AtHeader(L, h, p, N, j)
    BY <1>2, AmongHeaders, Zenon
  <1>4. /\ N = Len(sent.headers) /\ DOMAIN sent.headers = 1 .. N /\ j \in 0 .. N
        /\ LineRead /\ at = p[j + 1] /\ HeadersRead(j)
        /\ j = N => /\ at = h - 1
                    /\ h - 1 <= L => str[h - 1] = CR
                    /\ h <= L => str[h] = LF
    BY <1>3, Zenon DEF AtHeader
  <1>5. at \in Nat \ {0}
    BY <1>1 DEF PlaceInvariant, Typed
  <1>6. at + 1 <= L /\ str[at] = CR
    BY <1>1, <1>2, <1>5, LineEndIs, Zenon
  <1>7. j = N
    <2> SUFFICES ASSUME j # N PROVE FALSE
      OBVIOUS
    <2>1. PICK i \in 1 .. N : i = j + 1
      BY <1>4
    <2>2. i \in 1 .. Len(sent.headers) /\ at = p[i]
      BY <1>4, <2>1
    <2>3. PICK K, V : K = sent.headers[i].key /\ V = sent.headers[i].value
      OBVIOUS
    <2>4. PICK n, c \in Nat : HeaderShows(L, K, V, at, n, c)
      BY <2>2, <2>3, HeaderShown, Zenon
    <2>5. at <= L => str[at] # CR
      BY <1>1, <2>4, HeaderFound, Zenon
    <2> QED BY <1>1, <1>5, <1>6, <2>5
  <1>8. at = h - 1 /\ L >= h /\ at + 2 = h + 1
    BY <1>1, <1>4, <1>5, <1>6, <1>7
  <1>9. PICK b : b = Rest(h + 1)
    OBVIOUS
  <1>10. request' = [request EXCEPT !.body = b]
    BY <1>2, <1>8, <1>9, Zenon
  <1>11. PICK m : m = request.headers
    OBVIOUS
  <1>12. m = [k \in Keys(sent) |-> sent.headers[CHOOSE i \in DOMAIN sent.headers : sent.headers[i].key = k].value]
    <2>1. MapOf(sent.headers, N, m)
      BY <1>4, <1>7, <1>11, Zenon DEF HeadersRead
    <2> QED BY <1>4, <2>1, MapIs, Zenon
  <1>13. Parsed(sent, b) = [sent EXCEPT !.headers = m, !.body = b]
    BY <1>12, Zenon DEF Parsed
  <1>14. request.method = sent.method /\ request.path = sent.path /\ request.version = sent.version
         /\ sent.version # "HTTP_1_0"
    <2>1. Typed /\ Begun
      BY <1>2 DEF PlaceInvariant, Stands
    <2>2. request.method = sent.method
      BY <2>1, MethodRight
    <2> QED BY <1>4, <2>2 DEF LineRead
  <1>15. request' = Parsed(sent, b)
    <2>1. PICK q, r : q = request /\ r = sent
      OBVIOUS
    <2>2. ShapeOf(q)
      BY <2>1 DEF PlaceInvariant, Typed
    <2>3. q \in [method : DOMAIN Spell, path : Words, version : DOMAIN HTTP_VERSION_STRINGS,
                 headers : {q.headers}, body : {q.body}]
      BY <2>2 DEF ShapeOf
    <2>4. q = [method |-> q.method, path |-> q.path, version |-> q.version, headers |-> q.headers, body |-> q.body]
      BY ONLY <2>3
    <2>5. r \in [method : DOMAIN Spell, path : Seq(Char \ {SP, HT, CR, LF}), version : DOMAIN HTTP_VERSION_STRINGS,
                 headers : Seq([key : Seq(Char \ {SP, CR, LF}), value : Seq(Char \ {CR, LF})]), body : Seq(Char)]
      BY <2>1, Zenon DEF Chart, Separable
    <2>6. r = [method |-> r.method, path |-> r.path, version |-> r.version, headers |-> r.headers, body |-> r.body]
      BY ONLY <2>5
    <2>7. [q EXCEPT !.body = b] = [method |-> q.method, path |-> q.path, version |-> q.version, headers |-> q.headers, body |-> b]
      BY ONLY <2>4
    <2>8. [r EXCEPT !.headers = m, !.body = b]
            = [method |-> r.method, path |-> r.path, version |-> r.version, headers |-> m, body |-> b]
      <3>1. PICK x : x = [r EXCEPT !.headers = m]
        OBVIOUS
      <3>2. x = [method |-> r.method, path |-> r.path, version |-> r.version, headers |-> m, body |-> r.body]
        BY ONLY <2>6, <3>1
      <3>3. [x EXCEPT !.body = b]
              = [method |-> r.method, path |-> r.path, version |-> r.version, headers |-> m, body |-> b]
        BY ONLY <3>2
      <3>4. [r EXCEPT !.headers = m, !.body = b] = [x EXCEPT !.body = b]
        BY ONLY <3>1
      <3> QED BY ONLY <3>3, <3>4
    <2> QED BY <1>10, <1>11, <1>13, <1>14, <2>1, <2>7, <2>8, Zenon
  <1>16. Parsed(sent, b)' = Parsed(sent, b) /\ Rest(h + 1)' = b
    <2>1. Rest(h + 1)' = b
      BY <1>2, <1>9 DEF Rest
    <2> QED BY <1>2, <2>1 DEF Parsed, Keys
  <1>17. ~(L < h) /\ sent'.version # "HTTP_1_0"
    BY <1>1, <1>2, <1>8, <1>14
  <1>18. Ended(L, h)'
    BY <1>2, <1>9, <1>15, <1>16, <1>17, Zenon DEF Ended
  <1> QED BY <1>2, <1>18 DEF Tracks


(***************************************************************************)
(* RoundTrip and CutNotAccepted look at the end of the parse; to get       *)
(* there, the parser has to be on the map of the message at every step.    *)
(***************************************************************************)
ReadInvariant ==
  /\ PlaceInvariant /\ Delivered
  /\ whole => str = Wire(sent)
  /\ Separable(sent) /\ Cut => \E L, s, e, h, p : Chart(L, s, e, h, p) /\ Tracks(L, s, e, h, p)

LEMMA ChartStays ==
  ASSUME NEW L, NEW s, NEW e, NEW h, NEW p, Chart(L, s, e, h, p), sent' = sent, str' = str
  PROVE  Chart(L, s, e, h, p)'
  <1>1. PathStart' = PathStart
    BY DEF PathStart
  <1>2. WireHead(sent)' = WireHead(sent) /\ Wire(sent)' = Wire(sent)
    BY Zenon DEF WireHead, Wire, RequestLine, HeaderLines
  <1>3. Shows(L, s, e, h)'
    <2>1. Shows(L, s, e, h)
      BY DEF Chart
    <2> QED BY <2>1, Zenon DEF Shows
  <1>4. Separable(sent)'
    BY Zenon DEF Chart, Separable
  <1>5. Charted(Wire(sent), sent.headers, sent.body, e + 8, p, h)'
    <2>1. Charted(Wire(sent), sent.headers, sent.body, e + 8, p, h)
      BY DEF Chart
    <2> QED BY <1>2, <2>1, Zenon
  <1> QED BY <1>1, <1>2, <1>3, <1>4, <1>5, Zenon DEF Chart

LEMMA InitReads ==
  ASSUME Init
  PROVE  ReadInvariant
  <1>1. PlaceInvariant /\ Delivered /\ str \in Words /\ sent \in Sent
    BY InitPlaced, InitDelivered DEF Init
  <1>2. whole => str = Wire(sent)
    BY DEF Init
  <1>3. ASSUME Separable(sent), Cut PROVE \E L, s, e, h, p : Chart(L, s, e, h, p) /\ Tracks(L, s, e, h, p)
    <2>1. PICK L, s, e, h, p : Chart(L, s, e, h, p)
      BY <1>1, <1>3, ChartDrawn, Zenon
    <2>2. pc = "method" /\ request.headers = NoHeaders
      BY DEF Init, NoRequest
    <2>3. Tracks(L, s, e, h, p)
      BY <2>2 DEF Tracks
    <2> QED BY <2>1, <2>3
  <1> QED BY <1>1, <1>2, <1>3 DEF ReadInvariant

LEMMA NextTracks ==
  ASSUME NEW L, NEW s, NEW e, NEW h, NEW p, Chart(L, s, e, h, p), Tracks(L, s, e, h, p),
         PlaceInvariant, Delivered, [Next]_vars
  PROVE  Tracks(L, s, e, h, p)'
  <1>1. CASE UNCHANGED vars
    <2>1. sent' = sent /\ str' = str /\ at' = at /\ pc' = pc /\ request' = request /\ outcome' = outcome
      BY <1>1 DEF vars
    <2>2. Lost(L, s, e)' = Lost(L, s, e) /\ LineRead' = LineRead /\ Ended(L, h)' = Ended(L, h)
      BY <2>1 DEF Lost, LineRead, Ended, Parsed, Keys, Rest
    <2>3. \A j : HeadersRead(j)' = HeadersRead(j)
      BY <2>1 DEF HeadersRead
    <2> QED BY <2>1, <2>2, <2>3, Zenon DEF Tracks
  <1>2. CASE Next
    BY <1>2, MethodTracks, Space1Tracks, PathTracks, Space2Tracks, VersionTracks, EndTracks, HeaderTracks,
       BehindTracks, HeaderFailsTracks, ContentTracks, Zenon DEF Next
  <1> QED BY <1>1, <1>2

LEMMA NextReads ==
  ASSUME ReadInvariant, [Next]_vars
  PROVE  ReadInvariant'
  <1>1. PlaceInvariant' /\ PlaceInvariant /\ Delivered
    BY NextPlaced DEF ReadInvariant
  <1>2. sent' = sent /\ str' = str /\ whole' = whole
    BY DEF Next, vars, method_string_to_enum, expect_two, next_token, version_string_to_enum, expect_end,
           parse_header, ReadsOn, HeaderFails, SetContent, Step, Finish, Fail
  <1>3. Delivered'
    BY <1>1, <1>2, DeliveredStays
  <1>4. whole' => str' = Wire(sent)'
    <2>1. Wire(sent)' = Wire(sent)
      BY <1>2, Zenon DEF WireHead, Wire, RequestLine, HeaderLines
    <2> QED BY <1>2, <2>1 DEF ReadInvariant
  <1>5. ASSUME Separable(sent)', Cut' PROVE \E L, s, e, h, p : Chart(L, s, e, h, p)' /\ Tracks(L, s, e, h, p)'
    <2>1. Separable(sent) /\ Cut
      <3>1. Separable(sent)
        BY <1>2, <1>5, Zenon DEF Separable
      <3>2. Wire(sent)' = Wire(sent)
        BY <1>2, Zenon DEF WireHead, Wire, RequestLine, HeaderLines
      <3>3. Cut
        BY <1>2, <1>5, <3>2, Zenon DEF Cut
      <3> QED BY <3>1, <3>3
    <2>2. PICK L, s, e, h, p : Chart(L, s, e, h, p) /\ Tracks(L, s, e, h, p)
      BY <2>1, Zenon DEF ReadInvariant
    <2>3. Chart(L, s, e, h, p)'
      BY <1>2, <2>2, ChartStays, Zenon
    <2>4. Tracks(L, s, e, h, p)'
      BY <1>1, <2>2, NextTracks, Zenon
    <2> QED BY <2>3, <2>4, Zenon
  <1> QED BY <1>1, <1>3, <1>4, <1>5, Zenon DEF ReadInvariant

\* The body of a message that was not damaged: as much of it as has arrived.
LEMMA BodyRead ==
  ASSUME NEW L, NEW s, NEW e, NEW h, NEW p, Chart(L, s, e, h, p), L >= h
  PROVE  /\ IsPrefix(Rest(h + 1), sent.body)
         /\ L = Len(Wire(sent)) => Rest(h + 1) = sent.body
  <1>1. L \in Nat /\ h \in Nat /\ str \in Words /\ Len(str) = L
    BY ChartRead, Zenon
  <1>2. PICK B, W : B = sent.body /\ W = Wire(sent)
    OBVIOUS
  <1>3. B \in Words /\ Len(W) = h + Len(B) /\ \A k \in 1 .. Len(B) : W[h + k] = B[k]
    BY <1>2, Zenon DEF Chart, Charted
  <1>4. PICK b \in Nat : b = Len(B)
    BY <1>3 DEF Words
  <1>5. L <= h + b /\ \A k \in 1 .. L : str[k] = W[k]
    BY <1>2, <1>3, <1>4, Zenon DEF Chart
  <1>6. PICK d \in Nat : d = L - h /\ d <= b
    BY <1>1, <1>5
  <1>7. PICK u : u = Rest(h + 1)
    OBVIOUS
  <1>8. u \in Words /\ Len(u) = d /\ \A k \in 1 .. d : u[k] = B[k]
    <2>1. PICK i \in Nat \ {0} : i = h + 1 /\ i <= L + 1
      BY <1>1
    <2>2. /\ Rest(i) \in Words /\ Len(Rest(i)) = L - i + 1
          /\ \A k \in 1 .. L - i + 1 : Rest(i)[k] = str[i + k - 1]
      BY <1>1, <2>1, RestIs, Zenon
    <2>3. L - i + 1 = d
      BY <1>1, <1>6, <2>1
    <2>4. u \in Words /\ Len(u) = d /\ \A k \in 1 .. d : u[k] = str[i + k - 1]
      BY <1>7, <2>1, <2>2, <2>3, Zenon
    <2>5. ASSUME NEW k \in 1 .. d PROVE u[k] = B[k]
      <3>1. PICK x \in 1 .. L : x = i + k - 1 /\ x = h + k
        BY <1>1, <1>6, <2>1
      <3>2. str[x] = W[x]
        BY <1>5
      <3>3. k \in 1 .. b
        BY <1>6
      <3>4. W[h + k] = B[k]
        BY <1>3, <1>4, <3>3, Zenon
      <3> QED BY <2>4, <3>1, <3>2, <3>4
    <2> QED BY <2>4, <2>5
  <1>9. IsPrefix(u, B)
    <2>1. PICK v, w : v = SubSeq(u, 1, d) /\ w = SubSeq(B, 1, d)
      OBVIOUS
    <2>2. v \in Words /\ Len(v) = d /\ \A k \in 1 .. d : v[k] = u[k]
      BY <1>8, <2>1, SubSeqProperties DEF Words
    <2>3. w \in Words /\ Len(w) = d /\ \A k \in 1 .. d : w[k] = B[k]
      BY <1>3, <1>4, <1>6, <2>1, SubSeqProperties DEF Words
    <2>4. v = w
      BY ONLY <1>8, <2>2, <2>3, SeqEqual DEF Words
    <2>5. SubSeq(u, 1, Len(u)) = SubSeq(B, 1, Len(u)) /\ Len(u) <= Len(B)
      BY <1>4, <1>6, <1>8, <2>1, <2>4, Zenon
    <2> QED BY <2>5, Zenon DEF IsPrefix
  <1>10. ASSUME L = Len(W) PROVE u = B
    <2>1. d = b
      BY <1>1, <1>3, <1>4, <1>6, <1>10
    <2> QED BY ONLY <1>3, <1>4, <1>8, <2>1, SeqEqual DEF Words
  <1> QED BY <1>2, <1>7, <1>9, <1>10, Zenon

(***************************************************************************)
(* What operator<< prints, parse_http_request reads back, for every        *)
(* request whose parts can be told apart on the wire; an HTTP/1.0 request  *)
(* is always refused.                                                      *)
(***************************************************************************)
THEOREM ReadsBack == Spec => []RoundTrip
  <1>1. ASSUME ReadInvariant PROVE RoundTrip
    <2> SUFFICES ASSUME whole, pc = "done", Separable(sent)
                 PROVE  IF sent.version = "HTTP_1_0" THEN outcome = "error"
                        ELSE outcome = "request" /\ request = Parsed(sent, sent.body)
      BY DEF RoundTrip
    <2>1. str = Wire(sent) /\ str \in Words
      BY <1>1 DEF ReadInvariant, PlaceInvariant, Typed
    <2>2. Cut
      <3>1. Len(str) <= Len(str)
        BY <2>1 DEF Words
      <3> QED BY <2>1, <3>1, Zenon DEF Cut
    <2>3. PICK L, s, e, h, p : Chart(L, s, e, h, p) /\ Tracks(L, s, e, h, p)
      BY <1>1, <2>2, Zenon DEF ReadInvariant
    <2>4. L \in Nat /\ h \in Nat /\ Len(str) = L
      BY <2>3, ChartRead, Zenon
    <2>5. L >= h
      <3>1. PICK B : B = sent.body
        OBVIOUS
      <3>2. B \in Words /\ Len(Wire(sent)) = h + Len(B)
        BY <2>3, <3>1, Zenon DEF Chart, Charted
      <3>3. PICK b \in Nat : b = Len(B)
        BY <3>2 DEF Words
      <3>4. L = h + b
        BY <2>1, <2>4, <3>2, <3>3, Zenon
      <3> QED BY <2>4, <3>4
    <2>6. Rest(h + 1) = sent.body
      BY <2>1, <2>3, <2>4, <2>5, BodyRead, Zenon
    <2>7. Ended(L, h) /\ ~(L < h)
      BY <2>3, <2>4, <2>5 DEF Tracks
    <2> QED BY <2>6, <2>7, Zenon DEF Ended
  <1> QED BY <1>1, InitReads, NextReads, PTL DEF Spec

(***************************************************************************)
(* A request that was cut off before the end of its headers is taken for a *)
(* request on no message of any length, with any headers and in no build;  *)
(* one that was cut off in its body is read with the body it has.          *)
(***************************************************************************)
THEOREM CutRefused == Spec => []CutNotAccepted
  <1>1. ASSUME ReadInvariant PROVE CutNotAccepted
    <2> SUFFICES ASSUME pc = "done", IsCut, Separable(sent)
                 PROVE  IF Len(str) < Len(WireHead(sent)) \/ sent.version = "HTTP_1_0" THEN outcome # "request"
                        ELSE /\ outcome = "request" /\ request = Parsed(sent, request.body)
                             /\ IsPrefix(request.body, sent.body)
      BY DEF CutNotAccepted
    <2>1. Cut
      <3>1. str \in Words /\ Delivered
        BY <1>1 DEF ReadInvariant, PlaceInvariant, Typed
      <3>2. PICK W : W = Wire(sent)
        OBVIOUS
      <3>3. W \in Words
        BY <3>1, <3>2, WireLaid DEF Delivered, Laid
      <3>4. Len(str) \in Nat /\ Len(W) \in Nat /\ Len(str) < Len(W)
        BY <3>1, <3>2, <3>3 DEF IsCut, Words
      <3>5. Len(str) # Len(Wire(sent))
        BY <3>2, <3>4
      <3> QED BY <3>1, <3>5, Zenon DEF Delivered, DamagedAt
    <2>2. PICK L, s, e, h, p : Chart(L, s, e, h, p) /\ Tracks(L, s, e, h, p)
      BY <1>1, <2>1, Zenon DEF ReadInvariant
    <2>3. L \in Nat /\ h \in Nat /\ Len(str) = L /\ h = Len(WireHead(sent))
      BY <2>2, ChartRead, Zenon DEF Chart
    <2>4. Ended(L, h)
      BY <2>2 DEF Tracks
    <2>5. CASE L < h
      <3>1. outcome # "request"
        BY <2>4, <2>5, Zenon DEF Ended
      <3> QED BY <2>3, <2>5, <3>1, Zenon
    <2>6. CASE ~(L < h) /\ sent.version = "HTTP_1_0"
      <3>1. outcome = "error"
        BY <2>4, <2>6, Zenon DEF Ended
      <3> QED BY <2>6, <3>1
    <2>7. CASE ~(L < h) /\ sent.version # "HTTP_1_0"
      <3>1. outcome = "request" /\ request = Parsed(sent, Rest(h + 1))
        BY <2>4, <2>7, Zenon DEF Ended
      <3>2. request.body = Rest(h + 1)
        <4>1. PICK b : b = Rest(h + 1)
          OBVIOUS
        <4>2. Parsed(sent, b).body = b
          BY <2>2 DEF Parsed, Chart, Separable
        <4> QED BY <3>1, <4>1, <4>2, Zenon
      <3>3. IsPrefix(Rest(h + 1), sent.body)
        <4>1. L >= h
          BY <2>3, <2>7
        <4> QED BY <2>2, <4>1, BodyRead, Zenon
      <3>4. ~(Len(str) < Len(WireHead(sent)))
        BY <2>3, <2>7, Zenon
      <3> QED BY <2>7, <3>1, <3>2, <3>3, <3>4, Zenon
    <2> QED BY <2>5, <2>6, <2>7
  <1> QED BY <1>1, InitReads, NextReads, PTL DEF Spec
=============================================================================
