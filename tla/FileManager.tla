----------------------------- MODULE FileManager -----------------------------
(***************************************************************************)
(* The files below ../webdir: the scan and the encoding main does before   *)
(* the servers start, the fetchers (utility/file_manager), Brotli          *)
(* (utility/content_coding) and the response HTTPHandler prepares from     *)
(* what it is given.  Workers ask concurrently and without a lock.         *)
(*                                                                         *)
(* http::file_manager is static in a header, so every translation unit has *)
(* a manager of its own: FillUnit is the one whose code scans, RequestUnit *)
(* the one whose code answers requests.                                    *)
(***************************************************************************)
EXTENDS Integers, FiniteSets, Functions

CONSTANTS
  Files,       \* the names of files in the directory
  extension,   \* extension[f]: what path::extension says of f
  Outside,     \* a path that is not below the directory
  None, Empty, \* no file; a file or string without a byte
  Workers,
  Units, FillUnit, RequestUnit,
  MaxVersion,  \* bound on how often files are edited
  MaxRuns      \* bound on how often the program is started

ASSUME FileAssumption ==
  /\ extension \in [Files -> STRING] /\ Outside \notin Files
  /\ {FillUnit, RequestUnit} \subseteq Units
  /\ MaxVersion \in Nat /\ MaxRuns \in Nat \ {0}

\* Entries of a map: the only one, and one more.
Single(key, value) == [k \in {key} |-> value]
Entered(map, key, value) == [k \in DOMAIN map \cup {key} |-> IF k = key THEN value ELSE map[k]]

-----------------------------------------------------------------------------
(* Types and encodings.                                                    *)

extension_map ==
  [e \in {".html", ".css", ".js", ".png", ".svg", ".ttf", ".woff", ".woff2"} |->
     CASE e = ".html" -> "TEXT_HTML" [] e = ".css" -> "TEXT_CSS" [] e = ".js" -> "TEXT_JS"
       [] e = ".png" -> "IMAGE_PNG" [] e = ".svg" -> "IMAGE_SVG" [] e = ".ttf" -> "FONT_TTF"
       [] e = ".woff" -> "FONT_WOFF" [] e = ".woff2" -> "FONT_WOFF2"]

file_type_map ==
  [TEXT_HTML |-> "text/html", TEXT_CSS |-> "text/css", TEXT_JS |-> "text/javascript",
   TEXT_PLAIN |-> "text/plain", IMAGE_PNG |-> "image/png", IMAGE_SVG |-> "image/svg+xml",
   FONT_TTF |-> "font/ttf", FONT_WOFF |-> "font/woff", FONT_WOFF2 |-> "font/woff2"]

file_encoding_map == [NONE |-> "", BROTLI |-> "br", DEFLATE |-> "deflate", GZIP |-> "gzip"]

Br(f) == <<f, ".br">>
Paths == Files \cup {Br(f) : f \in Files}

(***************************************************************************)
(* A file holds some version of a source file, as it is or encoded: whole, *)
(* followed by the rest of the buffer, short of what the disk did not      *)
(* take, or cut off by the end of the run that wrote it.                   *)
(***************************************************************************)
Contents == [of : Files, version : Nat, form : {"plain", "br", "padded", "short", "cut"}]

ASSUME PathAssumption ==
  /\ None \notin Paths \cup Contents /\ Empty \notin Contents
  /\ \A f \in Files : Br(f) \notin Files

ExtensionOf(p) == IF p \in Files THEN extension[p] ELSE ".br"

encode_filetype(p) ==
  IF ExtensionOf(p) \in DOMAIN extension_map THEN extension_map[ExtensionOf(p)] ELSE "TEXT_PLAIN"

Compressible(filetype) == filetype \in {"TEXT_HTML", "TEXT_CSS", "TEXT_JS"}

-----------------------------------------------------------------------------
VARIABLES
  disk,         \* disk[p]: what the file holds
  descriptors,  \* descriptors[u]: the file_descriptors of u's manager
  cache,        \* cache[u]: the file_cache of u's manager
  phase,        \* "scan", "encode", "serve" or "dead"
  todo,         \* the descriptors the loop of generate_encoded_files has not reached
  writing,      \* the encoded file that is open for writing, or None
  worker,       \* worker[w]: the request w is at and how far it is
  runs,         \* how often the program has been started
  since,        \* history: since[p]: the version of p the scan found
  raced         \* history: the cache was written and used at the same time

vars == <<disk, descriptors, cache, phase, todo, writing, worker, runs, since, raced>>

NoFunction == [p \in {} |-> None]
Idle == [pc |-> "idle"]

DefaultData == [filetype |-> "TEXT_PLAIN", file_encoding |-> "NONE", content |-> Empty]
Requests == [method : {"GET", "HEAD"}, path : Paths \cup {Outside}, query : BOOLEAN]

Init ==
  /\ disk = [p \in Paths |-> IF p \in Files THEN [of |-> p, version |-> 0, form |-> "plain"] ELSE None]
  /\ descriptors = [u \in Units |-> NoFunction]
  /\ cache = [u \in Units |-> NoFunction]
  /\ phase = "scan" /\ todo = {} /\ writing = None
  /\ worker = [w \in Workers |-> Idle]
  /\ runs = 1
  /\ since = NoFunction /\ raced = FALSE

-----------------------------------------------------------------------------
(* Before the servers start.                                               *)

\* construct_file_descriptors: every file found, with itself as representation.
construct_file_descriptors ==
  /\ phase = "scan"
  /\ LET found == {p \in Paths : disk[p] # None} IN
     /\ descriptors' = [descriptors EXCEPT ![FillUnit] =
          [p \in found |-> [filetype |-> encode_filetype(p), file_paths |-> Single("NONE", p)]]]
     /\ todo' = found
     /\ since' = [p \in found |-> disk[p].version]
  /\ phase' = "encode"
  /\ UNCHANGED <<disk, cache, writing, worker, runs, raced>>

\* The directory is not there: directory_iterator throws out of main.
ScanThrows ==
  /\ phase = "scan" /\ phase' = "dead"
  /\ UNCHANGED <<disk, descriptors, cache, todo, writing, worker, runs, since, raced>>

Encodable(p) == Compressible(descriptors[FillUnit][p].filetype)

\* Faulty: the representation is entered whether or not it can be written.
EncodeSkips_Entered(p) ==
  /\ phase = "encode" /\ writing = None /\ p \in todo
  /\ todo' = todo \ {p}
  /\ descriptors' = IF Encodable(p)
                    THEN [descriptors EXCEPT ![FillUnit][p].file_paths = Entered(@, "BROTLI", Br(p))]
                    ELSE descriptors
  /\ UNCHANGED <<disk, cache, phase, writing, worker, runs, since, raced>>

\* Not worth encoding, or BrotliEncoderCompress or the open of the output fails.
EncodeSkips(p) ==
  /\ phase = "encode" /\ writing = None /\ p \in todo /\ (Encodable(p) => disk[p] # None)
  /\ todo' = todo \ {p}
  /\ UNCHANGED <<disk, descriptors, cache, phase, writing, worker, runs, since, raced>>

\* The file went after the scan: file_size throws out of main.
EncodeThrows(p) ==
  /\ phase = "encode" /\ writing = None /\ p \in todo /\ Encodable(p) /\ disk[p] = None
  /\ phase' = "dead"
  /\ UNCHANGED <<disk, descriptors, cache, todo, writing, worker, runs, since, raced>>

\* write_to_file opens, and so empties, the output.
encode(p) ==
  /\ phase = "encode" /\ writing = None /\ p \in todo /\ Encodable(p) /\ disk[p] # None
  /\ writing' = p
  /\ disk' = [disk EXCEPT ![Br(p)] = [disk[p] EXCEPT !.form = "cut"]]
  /\ UNCHANGED <<descriptors, cache, phase, todo, worker, runs, since, raced>>

(***************************************************************************)
(* The whole buffer is written, which is as long as the input: what the    *)
(* compressor made, and whatever is left of the buffer after it.  Nobody   *)
(* looks at the stream afterwards: a write that the disk did not take is a *)
(* written file like any other.                                            *)
(***************************************************************************)
write_to_file ==
  /\ writing # None
  /\ \E form \in {"br", "padded", "short"} : disk' = [disk EXCEPT ![Br(writing)].form = form]
  /\ descriptors' = [descriptors EXCEPT ![FillUnit][writing].file_paths = Entered(@, "BROTLI", Br(writing))]
  /\ todo' = todo \ {writing}
  /\ writing' = None
  /\ UNCHANGED <<cache, phase, worker, runs, since, raced>>

StartServers ==
  /\ phase = "encode" /\ todo = {}
  /\ phase' = "serve"
  /\ UNCHANGED <<disk, descriptors, cache, todo, writing, worker, runs, since, raced>>

-----------------------------------------------------------------------------
(* get_file and prepare_response, for the requests of the workers.         *)

Set(w, pc) == worker' = [worker EXCEPT ![w].pc = pc]
At(w, pc) == phase = "serve" /\ worker[w].pc = pc

\* remove_query and the prefix "../webdir".
convert_to_filedirectory(request) == request.path

Handle(w, request) ==
  /\ At(w, "idle")
  /\ worker' = [worker EXCEPT ![w] = [pc |-> "lookup", request |-> request,
                                      path |-> convert_to_filedirectory(request), data |-> DefaultData]]
  /\ UNCHANGED <<disk, descriptors, cache, phase, todo, writing, runs, since, raced>>

\* file_cache.find
Lookup(w) ==
  /\ At(w, "lookup")
  /\ Set(w, IF worker[w].path \in DOMAIN cache[RequestUnit] THEN "read" ELSE "fetch")
  /\ UNCHANGED <<disk, descriptors, cache, phase, todo, writing, runs, since, raced>>

\* The encoded representation wins; a file that is gone by now reads as empty.
ReadFile(paths) == disk[paths[IF "BROTLI" \in DOMAIN paths THEN "BROTLI" ELSE "NONE"]]

\* DiskFileFetcher::get_file
Fetch(w) ==
  /\ At(w, "fetch")
  /\ LET known == descriptors[RequestUnit]
         p == worker[w].path
     IN IF p \notin DOMAIN known THEN Set(w, "404")
        ELSE worker' = [worker EXCEPT
               ![w].pc = "insert",
               ![w].data = [filetype |-> known[p].filetype,
                            file_encoding |-> IF "BROTLI" \in DOMAIN known[p].file_paths
                                              THEN "BROTLI" ELSE "NONE",
                            content |-> IF ReadFile(known[p].file_paths) = None
                                        THEN Empty ELSE ReadFile(known[p].file_paths)]]
  /\ UNCHANGED <<disk, descriptors, cache, phase, todo, writing, runs, since, raced>>

Put(p, data) == cache' = [cache EXCEPT ![RequestUnit] = Entered(@, p, data)]

\* Faulty: what was fetched is not kept.
Insert_Forgets(w) ==
  /\ At(w, "insert") /\ Set(w, "read")
  /\ UNCHANGED <<disk, descriptors, cache, phase, todo, writing, runs, since, raced>>

\* file_cache is about to be written by w and used by another worker.
Racing(w) == At(w, "insert") /\ \E v \in Workers \ {w} : \E pc \in {"lookup", "insert", "read"} : At(v, pc)

(***************************************************************************)
(* file_cache[full_path] = entry, without the mutex that is there for it.  *)
(* When another worker uses the map meanwhile the behaviour is undefined:  *)
(* the entry may be lost or the process die.                               *)
(***************************************************************************)
Insert(w) ==
  /\ At(w, "insert")
  /\ \/ Put(worker[w].path, worker[w].data) /\ Set(w, "read") /\ UNCHANGED phase
     \/ Racing(w) /\ Set(w, "read") /\ UNCHANGED <<cache, phase>>
     \/ Racing(w) /\ phase' = "dead" /\ UNCHANGED <<cache, worker>>
  /\ raced' = (raced \/ Racing(w))
  /\ UNCHANGED <<disk, descriptors, todo, writing, runs, since>>

\* Faulty: the entry is taken out of the cache.
Read_Evicts(w) ==
  /\ At(w, "read") /\ worker[w].path \in DOMAIN cache[RequestUnit]
  /\ worker' = [worker EXCEPT ![w].data = cache[RequestUnit][worker[w].path], ![w].pc = "200"]
  /\ cache' = [cache EXCEPT ![RequestUnit] = Restrict(@, DOMAIN @ \ {worker[w].path})]
  /\ UNCHANGED <<disk, descriptors, phase, todo, writing, runs, since, raced>>

\* The second look-up, operator[], which makes an empty entry of a lost one.
Read(w) ==
  /\ At(w, "read")
  /\ LET p == worker[w].path
         data == IF p \in DOMAIN cache[RequestUnit] THEN cache[RequestUnit][p] ELSE DefaultData
     IN Put(p, data) /\ worker' = [worker EXCEPT ![w].data = data, ![w].pc = "200"]
  /\ UNCHANGED <<disk, descriptors, phase, todo, writing, runs, since, raced>>

\* What prepare_response makes of the data, by status.
response(w) ==
  [type     |-> file_type_map[worker[w].data.filetype],
   encoding |-> file_encoding_map[worker[w].data.file_encoding],
   body     |-> IF worker[w].request.method = "HEAD" THEN Empty ELSE worker[w].data.content]

\* The response is sent and the worker is free again.
Reply(w) ==
  /\ At(w, "200") \/ At(w, "404")
  /\ worker' = [worker EXCEPT ![w] = Idle]
  /\ UNCHANGED <<disk, descriptors, cache, phase, todo, writing, runs, since, raced>>

Work(w) ==
  \/ \E request \in Requests : Handle(w, request)
  \/ Lookup(w) \/ Fetch(w) \/ Insert(w) \/ Read(w) \/ Reply(w)

-----------------------------------------------------------------------------
(* The world: files are edited and deleted at any time, and the program is *)
(* killed and started again on what it left on the disk.                   *)

Edit(f) ==
  /\ disk[f] # None /\ disk[f].version < MaxVersion
  /\ disk' = [disk EXCEPT ![f].version = @ + 1]
  /\ UNCHANGED <<descriptors, cache, phase, todo, writing, worker, runs, since, raced>>

Delete(f) ==
  /\ disk[f] # None
  /\ disk' = [disk EXCEPT ![f] = None]
  /\ UNCHANGED <<descriptors, cache, phase, todo, writing, worker, runs, since, raced>>

Restart ==
  /\ runs < MaxRuns
  /\ runs' = runs + 1
  /\ descriptors' = [u \in Units |-> NoFunction]
  /\ cache' = [u \in Units |-> NoFunction]
  /\ phase' = "scan" /\ todo' = {} /\ writing' = None
  /\ worker' = [w \in Workers |-> Idle]
  /\ since' = NoFunction /\ raced' = FALSE
  /\ UNCHANGED disk

Next ==
  \/ construct_file_descriptors \/ ScanThrows
  \/ \E p \in Paths : EncodeSkips(p) \/ EncodeThrows(p) \/ encode(p)
  \/ write_to_file \/ StartServers
  \/ \E w \in Workers : Work(w)
  \/ \E f \in Files : Edit(f) \/ Delete(f)
  \/ Restart

Spec == Init /\ [][Next]_vars

-----------------------------------------------------------------------------
(* Properties.                                                             *)

(***************************************************************************)
(* However workers, edits, deletions and restarts interleave, a body that  *)
(* is not empty is that of the file asked for and no older than the start  *)
(* of the program.  A body is announced as br only when this run wrote the *)
(* encoded file to its end, so never what a killed run left behind, and    *)
(* any other is the plain file.  A br body is not always what it should    *)
(* be: write_to_file takes the whole buffer for the compressed data, so it *)
(* may be padded, and looks at nothing after the copy, so a body that the  *)
(* disk did not take whole is sent as well.                                *)
(***************************************************************************)
Source(p) == IF p \in Files THEN p ELSE p[1]
RightContent ==
  \A w \in Workers : At(w, "200") /\ response(w).body # Empty =>
    LET r == response(w)
        p == worker[w].path
    IN /\ r.body.of = Source(p)
       /\ r.encoding = "br" => r.body.form \in {"br", "padded", "short"} /\ p \in Files
       /\ r.encoding = "" /\ p \in Files => r.body.form = "plain"
       /\ r.body.version >= since[p]

(***************************************************************************)
(* The two look-ups of get_file, with the fetch and the insert between     *)
(* them, agree: a GET is answered 200 with an empty body only if the file  *)
(* is gone from the disk, or if workers raced on the cache since the start *)
(* and operator[] had to make up the entry.                                *)
(***************************************************************************)
EmptyOnlyIfGone ==
  \A w \in Workers :
    At(w, "200") /\ worker[w].request.method = "GET" /\ response(w).body = Empty =>
      raced \/ disk[worker[w].path] = None

(***************************************************************************)
(* README.md: "the server will fetch and serve files from the relative     *)
(* directory `../webdir`".  A file the scan found is not answered with     *)
(* 404, whatever its query.                                                *)
(***************************************************************************)
ServesFiles ==
  \A w \in Workers : At(w, "404") => worker[w].request.path \notin DOMAIN since

\* Every file is in the cache and no worker is about to insert.
Warm ==
  /\ phase = "serve" /\ DOMAIN descriptors[RequestUnit] \subseteq DOMAIN cache[RequestUnit]
  /\ \A w \in Workers : ~At(w, "insert") /\ ~(At(w, "fetch") /\ worker[w].path \in DOMAIN descriptors[RequestUnit])
WarmStep == Warm /\ phase' = "serve" => cache' = cache /\ Warm'

(***************************************************************************)
(* The cache is written only to fill it: once every file is in it and no   *)
(* worker is about to insert, no step inserts or removes an entry, and the *)
(* unlocked map is only read until the program ends.                       *)
(***************************************************************************)
StaysWarm == [][WarmStep]_vars
=============================================================================
