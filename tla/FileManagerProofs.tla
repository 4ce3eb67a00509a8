-------------------------- MODULE FileManagerProofs --------------------------
(***************************************************************************)
(* Proofs about FileManager for any files, any number of workers and any   *)
(* number of edits and restarts.                                           *)
(***************************************************************************)
EXTENDS FileManager, TLAPS

USE FileAssumption, PathAssumption

-----------------------------------------------------------------------------
(* The invariant.                                                          *)

FileTypes == DOMAIN file_type_map
Data == [filetype : FileTypes, file_encoding : {"NONE", "BROTLI"}, content : Contents \cup {Empty}]
Representations == [{"NONE"} -> Paths] \cup [{"NONE", "BROTLI"} -> Paths]
Descriptors == [filetype : FileTypes, file_paths : Representations]
Busy ==
  [pc : {"lookup", "fetch", "insert", "read", "200", "404"}, request : Requests,
   path : Paths \cup {Outside}, data : Data]

\* What the disk holds under the name of a file and under that of its encoded form.
SoundFile(f) == disk[f] # None => disk[f].of = f /\ disk[f].form = "plain"
SoundEncoding(f) ==
  disk[Br(f)] # None =>
    /\ disk[Br(f)].of = f /\ disk[Br(f)].form # "plain"
    /\ disk[f] # None => disk[Br(f)].version <= disk[f].version
SoundDisk ==
  /\ disk \in [Paths -> Contents \cup {None}]
  /\ \A f \in Files : SoundFile(f) /\ SoundEncoding(f)

\* Since the scan no file has become older, and no encoded one has gone.
NotOlder ==
  /\ DOMAIN since \subseteq Paths /\ since \in [DOMAIN since -> Nat]
  /\ \A p \in DOMAIN since : disk[p] # None => disk[p].version >= since[p]
  /\ \A f \in Files : Br(f) \in DOMAIN since => disk[Br(f)] # None

\* The encoded form of f was written to its end, from a file as new as at the scan.
Encoded(f) ==
  disk[Br(f)] # None /\ disk[Br(f)].form \in {"br", "padded", "short"} /\ disk[Br(f)].version >= since[f]

Described(p, d) ==
  /\ d \in Descriptors
  /\ d.filetype = encode_filetype(p)
  /\ d.file_paths["NONE"] = p
  /\ "BROTLI" \in DOMAIN d.file_paths =>
       p \in Files /\ p \notin todo /\ d.file_paths["BROTLI"] = Br(p) /\ Encoded(p)

AllDescribed ==
  /\ descriptors = [u \in Units |-> IF u = FillUnit THEN descriptors[u] ELSE NoFunction]
  /\ descriptors[FillUnit] \in [DOMAIN since -> Descriptors]
  /\ \A p \in DOMAIN since : Described(p, descriptors[FillUnit][p])

Encoding ==
  /\ phase \in {"scan", "encode", "serve", "dead"}
  /\ todo \subseteq DOMAIN since
  /\ phase \in {"scan", "serve"} => todo = {}
  /\ phase # "encode" => writing = None
  /\ writing # None =>
       /\ writing \in todo \cap Files
       /\ disk[Br(writing)] # None /\ disk[Br(writing)].version >= since[writing]

\* What may be answered for p.
RightData(p, d) ==
  /\ d \in Data
  /\ d.content # Empty =>
       /\ p \in DOMAIN since
       /\ d.content.of = Source(p) /\ d.content.version >= since[p]
       /\ d.file_encoding = "BROTLI" => p \in Files /\ d.content.form \in {"br", "padded", "short"}
       /\ d.file_encoding = "NONE" /\ p \in Files => d.content.form = "plain"

RightCache ==
  /\ cache = [u \in Units |-> IF u = RequestUnit THEN cache[u] ELSE NoFunction]
  /\ cache[RequestUnit] \in [DOMAIN cache[RequestUnit] -> Data]
  /\ \A p \in DOMAIN cache[RequestUnit] : RightData(p, cache[RequestUnit][p])

RightWorker(r) ==
  /\ r \in Busy
  /\ r.path = r.request.path
  /\ RightData(r.path, r.data)
  /\ r.pc = "404" => r.path \notin DOMAIN descriptors[RequestUnit]
  /\ r.pc \in {"insert", "read"} => r.path \in DOMAIN descriptors[RequestUnit] \cup DOMAIN cache[RequestUnit]

RightWorkers ==
  /\ worker \in [Workers -> Busy \cup {Idle}]
  /\ \A w \in Workers : worker[w] = Idle \/ RightWorker(worker[w])

\* Nobody is served before everything is encoded.
NotYet ==
  /\ phase \in {"scan", "encode"} =>
       (\A w \in Workers : worker[w] = Idle) /\ cache[RequestUnit] = NoFunction
  /\ phase = "scan" => since = NoFunction

(***************************************************************************)
(* RightContent speaks of what is about to be sent.  It was read long ago, *)
(* from a file that an earlier run may have left, through a descriptor the *)
(* scan made: each of them has to be right, also when the run that wrote   *)
(* the file was killed while it did.                                       *)
(***************************************************************************)
FileInvariant == SoundDisk /\ NotOlder /\ AllDescribed /\ Encoding /\ RightCache /\ RightWorkers /\ NotYet

-----------------------------------------------------------------------------
(* Names and types.                                                        *)

LEMMA BrNames ==
  /\ \A f \in Files : Br(f) \in Paths /\ Br(f) \notin Files /\ f \in Paths /\ f # Br(f) /\ Source(f) = f /\ Source(Br(f)) = f
  /\ \A f, g \in Files : Br(f) = Br(g) => f = g
  /\ \A p \in Paths : p \in Files \/ \E f \in Files : p = Br(f)
  /\ \A f, g \in Files : f # Br(g)
  BY DEF Br, Paths, Source

\* Every extension has a type that has a name; an encoded file is not encoded again.
LEMMA TypesNamed ==
  ASSUME NEW p
  PROVE  encode_filetype(p) \in FileTypes /\ (Compressible(encode_filetype(p)) => p \in Files)
  <1> DEFINE e == ExtensionOf(p)
  <1>1. FileTypes = {"TEXT_HTML", "TEXT_CSS", "TEXT_JS", "TEXT_PLAIN", "IMAGE_PNG", "IMAGE_SVG",
                     "FONT_TTF", "FONT_WOFF", "FONT_WOFF2"}
    BY DEF FileTypes, file_type_map
  <1>2. ASSUME e \in DOMAIN extension_map PROVE extension_map[e] \in FileTypes
    <2>1. e \in {".html", ".css", ".js", ".png", ".svg", ".ttf", ".woff", ".woff2"}
      BY <1>2 DEF extension_map
    <2> HIDE DEF e
    <2>2. extension_map[e] \in {"TEXT_HTML", "TEXT_CSS", "TEXT_JS", "IMAGE_PNG", "IMAGE_SVG",
                     "FONT_TTF", "FONT_WOFF", "FONT_WOFF2"}
      BY <2>1, Zenon DEF extension_map
    <2> QED BY <1>1, <2>2
  <1>3. p \notin Files => e \notin DOMAIN extension_map
    BY DEF ExtensionOf, extension_map
  <1>4. encode_filetype(p) = IF e \in DOMAIN extension_map THEN extension_map[e] ELSE "TEXT_PLAIN"
    BY DEF encode_filetype
  <1>5. ~Compressible("TEXT_PLAIN")
    BY DEF Compressible
  <1> HIDE DEF e
  <1> QED BY <1>1, <1>2, <1>3, <1>4, <1>5

LEMMA DefaultTyped ==
  DefaultData \in Data /\ DefaultData.content = Empty
  BY DEF DefaultData, Data, FileTypes, file_type_map

LEMMA NoFunctionEmpty ==
  /\ DOMAIN NoFunction = {}
  /\ \A S : NoFunction \in [{} -> S]
  /\ \A g, S : g \in [{} -> S] => g = NoFunction
  BY DEF NoFunction

-----------------------------------------------------------------------------
(* The invariant holds at first, and after a restart.                      *)

\* A program that has just been started, on whatever sound disk it finds.
Started ==
  /\ descriptors = [u \in Units |-> NoFunction] /\ cache = [u \in Units |-> NoFunction]
  /\ phase = "scan" /\ todo = {} /\ writing = None
  /\ worker = [w \in Workers |-> Idle] /\ since = NoFunction

LEMMA StartedRight ==
  ASSUME Started, SoundDisk
  PROVE  FileInvariant
  <1>1. NotOlder
    BY NoFunctionEmpty DEF Started, NotOlder
  <1>2. AllDescribed
    BY NoFunctionEmpty DEF Started, AllDescribed
  <1>3. Encoding
    BY DEF Started, Encoding
  <1>4. RightCache
    BY NoFunctionEmpty DEF Started, RightCache
  <1>5. RightWorkers
    BY DEF Started, RightWorkers
  <1>6. NotYet
    BY DEF Started, NotYet
  <1> QED BY <1>1, <1>2, <1>3, <1>4, <1>5, <1>6 DEF FileInvariant

StartedRightHere == Started /\ SoundDisk => FileInvariant

LEMMA StartedRightNext == StartedRightHere'
  <1>1. StartedRightHere
    BY StartedRight DEF StartedRightHere
  <1> QED BY <1>1, PTL

LEMMA InitRight ==
  ASSUME Init
  PROVE  FileInvariant
  <1>1. Started
    BY DEF Init, Started
  <1>2. \A f \in Files : [of |-> f, version |-> 0, form |-> "plain"] \in Contents
    BY DEF Contents
  <1>3. SoundDisk
    BY <1>2, BrNames DEF Init, SoundDisk, SoundFile, SoundEncoding
  <1> QED BY <1>1, <1>3, StartedRight

LEMMA RestartRight ==
  ASSUME FileInvariant, Restart
  PROVE  FileInvariant'
  <1>1. Started'
    BY DEF Restart, Started
  <1>2. SoundDisk'
    BY DEF FileInvariant, Restart, SoundDisk, SoundFile, SoundEncoding
  <1> QED BY <1>1, <1>2, StartedRightNext DEF StartedRightHere

-----------------------------------------------------------------------------
(* What is unchanged stays right.                                          *)

LEMMA KeepDisk ==
  ASSUME FileInvariant, UNCHANGED <<disk, since>>
  PROVE  SoundDisk' /\ NotOlder'
  <1>1. SoundDisk'
    BY DEF FileInvariant, SoundDisk, SoundFile, SoundEncoding
  <1>2. NotOlder'
    BY DEF FileInvariant, NotOlder
  <1> QED BY <1>1, <1>2

LEMMA KeepDescribed ==
  ASSUME FileInvariant, UNCHANGED <<disk, since, descriptors>>, todo' \subseteq todo
  PROVE  AllDescribed'
  BY DEF FileInvariant, AllDescribed, Described, Encoded

LEMMA KeepServed ==
  ASSUME FileInvariant, UNCHANGED <<since, cache, worker>>,
         DOMAIN descriptors'[RequestUnit] = DOMAIN descriptors[RequestUnit]
  PROVE  RightCache' /\ RightWorkers'
  <1>1. RightCache'
    BY DEF FileInvariant, RightCache, RightData
  <1>2. RightWorkers'
    BY DEF FileInvariant, RightWorkers, RightWorker, RightData
  <1> QED BY <1>1, <1>2

-----------------------------------------------------------------------------
(* Before the servers start.                                               *)

LEMMA ScanRight ==
  ASSUME FileInvariant, construct_file_descriptors
  PROVE  FileInvariant'
  <1> DEFINE found == {p \in Paths : disk[p] # None}
             made == [p \in found |-> [filetype |-> encode_filetype(p), file_paths |-> Single("NONE", p)]]
  <1>0. /\ phase = "scan" /\ phase' = "encode" /\ UNCHANGED <<disk, cache, writing, worker>>
        /\ descriptors' = [descriptors EXCEPT ![FillUnit] = made]
        /\ todo' = found /\ since' = [p \in found |-> disk[p].version]
    BY DEF construct_file_descriptors
  <1>1. /\ SoundDisk /\ AllDescribed /\ writing = None
        /\ cache[RequestUnit] = NoFunction /\ \A w \in Workers : worker[w] = Idle
    BY <1>0 DEF FileInvariant, NotYet, Encoding
  <1>2. DOMAIN since' = found /\ found \subseteq Paths
    BY <1>0
  <1>3. \A p \in found : disk[p] \in Contents /\ disk[p].version \in Nat /\ since'[p] = disk[p].version
    BY <1>0, <1>1 DEF SoundDisk, Contents
  <1>4. SoundDisk'
    BY <1>0, <1>1 DEF SoundDisk, SoundFile, SoundEncoding
  <1>5. NotOlder'
    <2>1. since' \in [found -> Nat]
      BY <1>0, <1>3
    <2>2. \A p \in found : disk'[p] # None => disk'[p].version >= since'[p]
      BY <1>0, <1>3
    <2>3. \A f \in Files : Br(f) \in found => disk'[Br(f)] # None
      BY <1>0
    <2> HIDE DEF found
    <2> QED BY <1>2, <2>1, <2>2, <2>3 DEF NotOlder
  <1>6. /\ descriptors' = [u \in Units |-> IF u = FillUnit THEN descriptors'[u] ELSE NoFunction]
        /\ descriptors'[FillUnit] = made
    BY <1>0, <1>1 DEF AllDescribed
  <1>7. AllDescribed'
    <2>1. ASSUME NEW p \in found
          PROVE  made[p] \in Descriptors /\ Described(p, descriptors[FillUnit][p])'
      <3>1. made[p] = [filetype |-> encode_filetype(p), file_paths |-> Single("NONE", p)]
        OBVIOUS
      <3>2. /\ Single("NONE", p) \in [{"NONE"} -> Paths] /\ Single("NONE", p)["NONE"] = p
            /\ "BROTLI" \notin DOMAIN Single("NONE", p)
        BY DEF Single
      <3>3. made[p] \in Descriptors
        BY <3>1, <3>2, TypesNamed DEF Descriptors, Representations
      <3>4. descriptors'[FillUnit][p] = made[p]
        BY <1>6
      <3> QED BY <3>1, <3>2, <3>3, <3>4 DEF Described
    <2>2. made \in [found -> Descriptors]
      BY <2>1
    <2> HIDE DEF made, found
    <2> QED BY <1>2, <1>6, <2>1, <2>2 DEF AllDescribed
  <1>8. Encoding'
    BY <1>0, <1>1, <1>2 DEF Encoding
  <1>9. RightCache'
    BY <1>0, <1>1, NoFunctionEmpty DEF FileInvariant, RightCache
  <1>10. RightWorkers'
    BY <1>0, <1>1 DEF FileInvariant, RightWorkers
  <1>11. NotYet'
    BY <1>0, <1>1 DEF NotYet
  <1> QED BY <1>4, <1>5, <1>7, <1>8, <1>9, <1>10, <1>11 DEF FileInvariant

\* Steps that only change how far the program is.
LEMMA PhaseRight ==
  ASSUME FileInvariant, ScanThrows \/ StartServers \/ \E p \in Paths : EncodeThrows(p)
  PROVE  FileInvariant'
  <1>1. /\ UNCHANGED <<disk, descriptors, cache, todo, writing, worker, since>>
        /\ phase' \in {"serve", "dead"} /\ (phase' = "serve" => todo = {}) /\ writing = None
    BY DEF FileInvariant, Encoding, ScanThrows, StartServers, EncodeThrows
  <1>2. Encoding' /\ NotYet'
    BY <1>1 DEF FileInvariant, Encoding, NotYet
  <1> QED BY <1>1, <1>2, KeepDisk, KeepDescribed, KeepServed DEF FileInvariant

LEMMA SkipRight ==
  ASSUME FileInvariant, NEW p \in Paths, EncodeSkips(p)
  PROVE  FileInvariant'
  <1>1. /\ UNCHANGED <<disk, descriptors, cache, phase, writing, worker, since>>
        /\ phase = "encode" /\ writing = None /\ todo' = todo \ {p}
    BY DEF EncodeSkips
  <1>2. Encoding' /\ NotYet'
    BY <1>1 DEF FileInvariant, Encoding, NotYet
  <1> QED BY <1>1, <1>2, KeepDisk, KeepDescribed, KeepServed DEF FileInvariant

\* The encoded form of a file that is not encoded yet may be written.
LEMMA EncodeRight ==
  ASSUME FileInvariant, NEW p \in Paths, encode(p)
  PROVE  FileInvariant'
  <1>0. /\ phase = "encode" /\ writing = None /\ writing' = p /\ p \in todo /\ disk[p] # None
        /\ disk' = [disk EXCEPT ![Br(p)] = [disk[p] EXCEPT !.form = "cut"]]
        /\ UNCHANGED <<descriptors, cache, phase, todo, worker, since>> /\ Encodable(p)
    BY DEF encode
  <1>1. /\ SoundDisk /\ NotOlder /\ AllDescribed /\ todo \subseteq DOMAIN since
        /\ p \in DOMAIN since
    BY <1>0 DEF FileInvariant, Encoding
  <1>2. p \in Files
    <2>1. descriptors[FillUnit][p].filetype = encode_filetype(p)
      BY <1>1 DEF AllDescribed, Described
    <2> QED BY <1>0, <2>1, TypesNamed DEF Encodable
  <1>3. disk[p] \in Contents /\ disk[p].of = p /\ disk[p].version \in Nat /\ disk[p].version >= since[p]
    BY <1>0, <1>1, <1>2 DEF SoundDisk, SoundFile, NotOlder, Contents
  <1> DEFINE c == [disk[p] EXCEPT !.form = "cut"]
  <1>4. c \in Contents /\ c.of = p /\ c.version = disk[p].version /\ c.form = "cut" /\ c # None
    BY <1>3 DEF Contents
  <1>5. /\ disk' = [disk EXCEPT ![Br(p)] = c] /\ Br(p) \in Paths /\ disk'[Br(p)] = c
        /\ \A q \in Paths : q # Br(p) => disk'[q] = disk[q]
    BY <1>0, <1>1, <1>2, BrNames DEF SoundDisk
  <1> HIDE DEF c
  <1>6. SoundDisk'
    <2>1. disk' \in [Paths -> Contents \cup {None}]
      BY <1>1, <1>4, <1>5 DEF SoundDisk
    <2>2. ASSUME NEW f \in Files PROVE SoundFile(f)'
      BY <1>1, <1>2, <1>5, BrNames DEF SoundDisk, SoundFile
    <2>3. ASSUME NEW f \in Files PROVE SoundEncoding(f)'
      <3>1. disk'[f] = disk[f]
        BY <1>5, BrNames, <1>2
      <3>2. CASE f = p
        BY <1>3, <1>4, <1>5, <3>1, <3>2 DEF SoundEncoding
      <3>3. CASE f # p
        <4>1. disk'[Br(f)] = disk[Br(f)]
          BY <1>2, <1>5, <3>3, BrNames
        <4> QED BY <1>1, <3>1, <4>1 DEF SoundDisk, SoundEncoding
      <3> QED BY <3>2, <3>3
    <2> QED BY <2>1, <2>2, <2>3 DEF SoundDisk
  <1>7. NotOlder'
    <2>1. Br(p) \in DOMAIN since => c.version >= since[Br(p)]
      <3> SUFFICES ASSUME Br(p) \in DOMAIN since PROVE c.version >= since[Br(p)]
        OBVIOUS
      <3>1. disk[Br(p)] # None /\ disk[Br(p)].version >= since[Br(p)] /\ since[Br(p)] \in Nat
        BY <1>1, <1>2 DEF NotOlder
      <3>2. disk[Br(p)].version <= disk[p].version /\ disk[Br(p)].version \in Nat
        BY <1>0, <1>1, <1>2, <3>1, BrNames DEF SoundDisk, SoundEncoding, Contents
      <3> QED BY <1>3, <1>4, <3>1, <3>2
    <2>2. \A q \in DOMAIN since : disk'[q] # None => disk'[q].version >= since[q]
      BY <1>1, <1>5, <2>1 DEF NotOlder
    <2>3. \A f \in Files : Br(f) \in DOMAIN since => disk'[Br(f)] # None
      BY <1>1, <1>4, <1>5, BrNames DEF NotOlder
    <2> QED BY <1>0, <1>1, <2>2, <2>3 DEF NotOlder
  <1>8. AllDescribed'
    <2>1. ASSUME NEW q \in DOMAIN since PROVE Described(q, descriptors[FillUnit][q])'
      <3>1. Described(q, descriptors[FillUnit][q])
        BY <1>1 DEF AllDescribed
      <3>2. q \in Files /\ q # p => disk'[Br(q)] = disk[Br(q)]
        BY <1>2, <1>5, BrNames
      <3> QED BY <1>0, <3>1, <3>2 DEF Described, Encoded
    <2> QED BY <1>0, <1>1, <2>1 DEF AllDescribed
  <1>9. Encoding'
    BY <1>0, <1>1, <1>2, <1>3, <1>4, <1>5 DEF Encoding
  <1>10. NotYet'
    BY <1>0 DEF FileInvariant, NotYet
  <1> QED BY <1>0, <1>6, <1>7, <1>8, <1>9, <1>10, KeepServed DEF FileInvariant

\* The encoded form is written, and enters the descriptor of its file.
LEMMA WriteRight ==
  ASSUME FileInvariant, write_to_file
  PROVE  FileInvariant'
  <1>0. /\ writing # None /\ writing' = None /\ todo' = todo \ {writing}
        /\ descriptors' = [descriptors EXCEPT ![FillUnit][writing].file_paths = Entered(@, "BROTLI", Br(writing))]
        /\ UNCHANGED <<cache, phase, worker, since>>
    BY DEF write_to_file
  <1>1. PICK form \in {"br", "padded", "short"} : disk' = [disk EXCEPT ![Br(writing)].form = form]
    BY DEF write_to_file
  <1>2. /\ SoundDisk /\ NotOlder /\ AllDescribed /\ todo \subseteq DOMAIN since /\ phase = "encode"
        /\ writing \in todo \cap Files /\ disk[Br(writing)] # None /\ disk[Br(writing)].version >= since[writing]
    BY <1>0 DEF FileInvariant, Encoding
  <1>3. PICK f \in Files : f = writing
    BY <1>2
  <1>4. /\ f \in todo /\ f \in DOMAIN since /\ Br(f) \in Paths
        /\ disk[Br(f)] \in Contents /\ disk[Br(f)].of = f /\ disk[Br(f)].version >= since[f]
        /\ disk[Br(f)].version \in Nat
        /\ (disk[f] # None => disk[Br(f)].version <= disk[f].version)
    BY <1>2, <1>3, BrNames DEF SoundDisk, SoundEncoding, Contents
  <1>5. /\ disk' \in [Paths -> Contents \cup {None}]
        /\ disk'[Br(f)] \in Contents /\ disk'[Br(f)].of = f
        /\ disk'[Br(f)].version = disk[Br(f)].version /\ disk'[Br(f)].form = form
        /\ \A q \in Paths : q # Br(f) => disk'[q] = disk[q]
    BY <1>1, <1>2, <1>3, <1>4 DEF SoundDisk, Contents
  <1>6. disk'[Br(f)] # None /\ form # "plain"
    BY <1>5
  <1>7. SoundDisk'
    <2>2. ASSUME NEW g \in Files PROVE SoundFile(g)'
      BY <1>2, <1>5, BrNames DEF SoundDisk, SoundFile
    <2>3. ASSUME NEW g \in Files PROVE SoundEncoding(g)'
      <3>1. disk'[g] = disk[g]
        BY <1>5, BrNames
      <3>2. CASE g = f
        BY <1>4, <1>5, <1>6, <3>1, <3>2 DEF SoundEncoding
      <3>3. CASE g # f
        <4>1. disk'[Br(g)] = disk[Br(g)]
          BY <1>5, <3>3, BrNames
        <4> QED BY <1>2, <3>1, <4>1 DEF SoundDisk, SoundEncoding
      <3> QED BY <3>2, <3>3
    <2> QED BY <1>5, <2>2, <2>3 DEF SoundDisk
  <1>8. NotOlder'
    <2>1. \A q \in DOMAIN since : disk'[q] # None => disk'[q].version >= since[q]
      BY <1>2, <1>4, <1>5 DEF NotOlder
    <2>2. \A g \in Files : Br(g) \in DOMAIN since => disk'[Br(g)] # None
      BY <1>2, <1>5, <1>6, BrNames DEF NotOlder
    <2> QED BY <1>0, <1>2, <2>1, <2>2 DEF NotOlder
  <1>9. AllDescribed'
    <2> DEFINE d == descriptors[FillUnit][f]
               paths == Entered(d.file_paths, "BROTLI", Br(f))
    <2>1. d \in Descriptors /\ Described(f, d)
      BY <1>2, <1>4 DEF AllDescribed
    <2>2. d.file_paths \in [{"NONE"} -> Paths]
      BY <1>4, <2>1 DEF Described, Descriptors, Representations
    <2>3. /\ paths \in [{"NONE", "BROTLI"} -> Paths]
          /\ paths["NONE"] = f /\ paths["BROTLI"] = Br(f)
      BY <1>4, <2>1, <2>2 DEF Entered, Described
    <2>4. /\ descriptors'[FillUnit] = [descriptors[FillUnit] EXCEPT ![f] = [d EXCEPT !.file_paths = paths]]
          /\ descriptors' = [u \in Units |-> IF u = FillUnit THEN descriptors'[u] ELSE NoFunction]
      BY <1>0, <1>2, <1>3, <1>4 DEF AllDescribed
    <2> HIDE DEF paths
    <2>5. /\ [d EXCEPT !.file_paths = paths] \in Descriptors
          /\ [d EXCEPT !.file_paths = paths].filetype = d.filetype
          /\ [d EXCEPT !.file_paths = paths].file_paths = paths
      BY <2>1, <2>3 DEF Descriptors, Representations
    <2>6. /\ descriptors'[FillUnit] \in [DOMAIN since -> Descriptors]
          /\ descriptors'[FillUnit][f] = [d EXCEPT !.file_paths = paths]
          /\ \A q \in DOMAIN since : q # f => descriptors'[FillUnit][q] = descriptors[FillUnit][q]
      BY <1>2, <1>4, <2>4, <2>5 DEF AllDescribed
    <2>7. Encoded(f)'
      BY <1>0, <1>4, <1>5, <1>6 DEF Encoded
    <2>8. Described(f, descriptors[FillUnit][f])'
      BY <1>0, <1>3, <2>1, <2>3, <2>5, <2>6, <2>7 DEF Described
    <2>9. ASSUME NEW q \in DOMAIN since, q # f PROVE Described(q, descriptors[FillUnit][q])'
      <3>1. Described(q, descriptors[FillUnit][q]) /\ descriptors'[FillUnit][q] = descriptors[FillUnit][q]
        BY <1>2, <2>6, <2>9 DEF AllDescribed
      <3>2. q \in Files => disk'[Br(q)] = disk[Br(q)]
        BY <1>5, <2>9, BrNames
      <3> QED BY <1>0, <3>1, <3>2 DEF Described, Encoded
    <2> QED BY <1>0, <2>4, <2>6, <2>8, <2>9 DEF AllDescribed
  <1>10. DOMAIN descriptors'[RequestUnit] = DOMAIN descriptors[RequestUnit]
    BY <1>0, <1>2, <1>9 DEF AllDescribed
  <1>11. Encoding'
    BY <1>0, <1>2 DEF FileInvariant, Encoding
  <1>12. NotYet'
    BY <1>0 DEF FileInvariant, NotYet
  <1> QED BY <1>0, <1>7, <1>8, <1>9, <1>10, <1>11, <1>12, KeepServed DEF FileInvariant

-----------------------------------------------------------------------------
(* The world.                                                              *)

\* A file is edited or goes; what was encoded from it stays.
LEMMA WorldRight ==
  ASSUME FileInvariant, NEW f \in Files, Edit(f) \/ Delete(f)
  PROVE  FileInvariant'
  <1>0. /\ disk[f] # None
        /\ UNCHANGED <<descriptors, cache, phase, todo, writing, worker, since>>
    BY DEF Edit, Delete
  <1>1. SoundDisk /\ NotOlder /\ AllDescribed /\ f \in Paths
    BY <1>0, BrNames DEF FileInvariant, Encoding
  <1>2. disk[f] \in Contents /\ disk[f].version \in Nat /\ disk[f].of = f /\ disk[f].form = "plain"
    BY <1>0, <1>1 DEF SoundDisk, SoundFile, Contents
  <1>3. /\ disk' \in [Paths -> Contents \cup {None}]
        /\ \A q \in Paths : q # f => disk'[q] = disk[q]
        /\ disk'[f] # None => /\ disk'[f].of = f /\ disk'[f].form = "plain"
                              /\ disk'[f].version = disk[f].version + 1
    <2>1. CASE Edit(f)
      BY <1>1, <1>2, <2>1 DEF Edit, SoundDisk, Contents
    <2>2. CASE Delete(f)
      BY <1>1, <2>2 DEF Delete, SoundDisk
    <2> QED BY <2>1, <2>2
  <1>4. \A g \in Files : disk'[Br(g)] = disk[Br(g)]
    BY <1>3, BrNames
  <1>5. SoundDisk'
    <2>1. ASSUME NEW g \in Files PROVE SoundFile(g)'
      BY <1>1, <1>3, BrNames DEF SoundDisk, SoundFile
    <2>2. ASSUME NEW g \in Files PROVE SoundEncoding(g)'
      <3>1. SoundEncoding(g) /\ (disk[Br(g)] # None => disk[Br(g)].version \in Nat)
        BY <1>1, BrNames DEF SoundDisk, Contents
      <3>2. disk'[Br(g)] = disk[Br(g)]
        BY <1>4
      <3>3. CASE g = f
        BY <1>0, <1>2, <1>3, <3>1, <3>2, <3>3 DEF SoundEncoding
      <3>4. CASE g # f
        <4>1. disk'[g] = disk[g]
          BY <1>3, <3>4, BrNames
        <4> QED BY <3>1, <3>2, <4>1 DEF SoundEncoding
      <3> QED BY <3>3, <3>4
    <2> QED BY <1>3, <2>1, <2>2 DEF SoundDisk
  <1>6. NotOlder'
    <2>1. ASSUME NEW p \in DOMAIN since, disk'[p] # None PROVE disk'[p].version >= since[p]
      <3>1. p \in Paths /\ since[p] \in Nat
        BY <1>1 DEF NotOlder
      <3>2. CASE p = f
        BY <1>0, <1>1, <1>2, <1>3, <2>1, <3>1, <3>2 DEF NotOlder
      <3>3. CASE p # f
        BY <1>1, <1>3, <2>1, <3>1, <3>3 DEF NotOlder
      <3> QED BY <3>2, <3>3
    <2>2. \A g \in Files : Br(g) \in DOMAIN since => disk'[Br(g)] # None
      BY <1>1, <1>4 DEF NotOlder
    <2> QED BY <1>0, <1>1, <2>1, <2>2 DEF NotOlder
  <1>7. AllDescribed'
    <2>1. ASSUME NEW q \in DOMAIN since PROVE Described(q, descriptors[FillUnit][q])'
      <3>1. Described(q, descriptors[FillUnit][q])
        BY <1>1 DEF AllDescribed
      <3> QED BY <1>0, <1>4, <3>1 DEF Described, Encoded
    <2> QED BY <1>0, <1>1, <2>1 DEF AllDescribed
  <1>8. Encoding'
    BY <1>0, <1>4 DEF FileInvariant, Encoding
  <1>9. NotYet'
    BY <1>0 DEF FileInvariant, NotYet
  <1> QED BY <1>0, <1>5, <1>6, <1>7, <1>8, <1>9, KeepServed DEF FileInvariant

-----------------------------------------------------------------------------
(* The workers.                                                            *)

\* What no worker changes.
LEMMA ServingKeeps ==
  ASSUME FileInvariant, phase = "serve", phase' \in {"serve", "dead"},
         UNCHANGED <<disk, descriptors, todo, writing, since>>
  PROVE  SoundDisk' /\ NotOlder' /\ AllDescribed' /\ Encoding' /\ NotYet'
  <1>1. Encoding'
    BY DEF FileInvariant, Encoding
  <1>2. NotYet'
    BY DEF NotYet
  <1> QED BY <1>1, <1>2, KeepDisk, KeepDescribed

LEMMA CacheKept ==
  ASSUME FileInvariant, UNCHANGED <<cache, since>>
  PROVE  RightCache'
  BY DEF FileInvariant, RightCache, RightData

\* The right data enters the cache.
LEMMA CacheEntered ==
  ASSUME FileInvariant, UNCHANGED since, NEW p, NEW d, RightData(p, d), Put(p, d)
  PROVE  RightCache' /\ DOMAIN cache'[RequestUnit] = DOMAIN cache[RequestUnit] \cup {p}
  <1> DEFINE D == DOMAIN cache[RequestUnit]
  <1>1. /\ cache = [u \in Units |-> IF u = RequestUnit THEN cache[u] ELSE NoFunction]
        /\ cache[RequestUnit] \in [D -> Data] /\ d \in Data
        /\ \A q \in D : RightData(q, cache[RequestUnit][q])
    BY DEF FileInvariant, RightCache, RightData
  <1>2. /\ cache'[RequestUnit] = Entered(cache[RequestUnit], p, d)
        /\ cache' = [u \in Units |-> IF u = RequestUnit THEN cache'[u] ELSE NoFunction]
    BY <1>1 DEF Put
  <1> HIDE DEF D
  <1>3. /\ cache'[RequestUnit] \in [D \cup {p} -> Data] /\ cache'[RequestUnit][p] = d
        /\ \A q \in D : q # p => cache'[RequestUnit][q] = cache[RequestUnit][q]
    BY <1>1, <1>2 DEF Entered
  <1>4. ASSUME NEW q \in D \cup {p} PROVE RightData(q, cache[RequestUnit][q])'
    <2>1. RightData(q, cache'[RequestUnit][q])
      BY <1>1, <1>3
    <2> QED BY <2>1 DEF RightData
  <1>5. DOMAIN cache'[RequestUnit] = D \cup {p}
    BY <1>3
  <1>6. RightCache'
    BY <1>2, <1>3, <1>4, <1>5 DEF RightCache
  <1> QED BY <1>5, <1>6 DEF D

\* A worker is where it may be, and the others with it.
LEMMA OneWorker ==
  ASSUME FileInvariant, UNCHANGED <<since, descriptors>>,
         DOMAIN cache[RequestUnit] \subseteq DOMAIN cache'[RequestUnit],
         NEW w \in Workers, NEW r, worker' = [worker EXCEPT ![w] = r],
         r = Idle \/ RightWorker(r)'
  PROVE  RightWorkers'
  <1>1. worker \in [Workers -> Busy \cup {Idle}] /\ \A v \in Workers : worker[v] = Idle \/ RightWorker(worker[v])
    BY DEF FileInvariant, RightWorkers
  <1>2. r \in Busy \cup {Idle}
    BY DEF RightWorker
  <1>3. worker' \in [Workers -> Busy \cup {Idle}] /\ worker'[w] = r
        /\ \A v \in Workers : v # w => worker'[v] = worker[v]
    BY <1>1, <1>2
  <1>4. ASSUME NEW v \in Workers PROVE (worker[v] = Idle \/ RightWorker(worker[v]))'
    <2>1. CASE v = w
      BY <1>3, <2>1 DEF RightWorker, RightData
    <2>2. CASE v # w
      <3>1. worker'[v] = worker[v] /\ (worker[v] = Idle \/ RightWorker(worker[v]))
        BY <1>1, <1>3, <2>2
      <3> QED BY <3>1 DEF RightWorker, RightData
    <2> QED BY <2>1, <2>2
  <1> QED BY <1>3, <1>4 DEF RightWorkers

\* A worker that is somewhere is at a request.
LEMMA WorkerAt ==
  ASSUME FileInvariant, NEW w \in Workers, worker[w].pc # "idle"
  PROVE  worker[w] \in Busy /\ RightWorker(worker[w])
  BY DEF FileInvariant, RightWorkers, RightWorker, Idle

LEMMA HandleRight ==
  ASSUME FileInvariant, NEW w \in Workers, NEW request \in Requests, Handle(w, request)
  PROVE  FileInvariant'
  <1>1. /\ phase = "serve" /\ UNCHANGED <<disk, descriptors, cache, phase, todo, writing, since>>
        /\ worker' = [worker EXCEPT ![w] = [pc |-> "lookup", request |-> request,
                                            path |-> request.path, data |-> DefaultData]]
    BY DEF Handle, At, convert_to_filedirectory
  <1>2. PICK r : r = [pc |-> "lookup", request |-> request, path |-> request.path, data |-> DefaultData]
    OBVIOUS
  <1>3. r \in Busy /\ r.path = r.request.path /\ r.pc = "lookup" /\ r.data = DefaultData
    BY <1>2, DefaultTyped DEF Busy, Requests
  <1>4. RightWorker(r)'
    BY <1>3, DefaultTyped DEF RightWorker, RightData
  <1>5. RightWorkers'
    BY <1>1, <1>2, <1>4, OneWorker
  <1> QED BY <1>1, <1>5, ServingKeeps, CacheKept DEF FileInvariant

LEMMA LookupRight ==
  ASSUME FileInvariant, NEW w \in Workers, Lookup(w)
  PROVE  FileInvariant'
  <1> DEFINE pc == IF worker[w].path \in DOMAIN cache[RequestUnit] THEN "read" ELSE "fetch"
  <1>1. /\ phase = "serve" /\ UNCHANGED <<disk, descriptors, cache, phase, todo, writing, since>>
        /\ worker[w].pc = "lookup" /\ worker' = [worker EXCEPT ![w].pc = pc]
    BY DEF Lookup, At, Set
  <1>2. worker[w] \in Busy /\ RightWorker(worker[w])
    BY <1>1, WorkerAt
  <1>3. PICK r : r = [worker[w] EXCEPT !.pc = pc]
    OBVIOUS
  <1>4. /\ r \in Busy /\ r.path = worker[w].path /\ r.request = worker[w].request
        /\ r.data = worker[w].data /\ r.pc = pc
    BY <1>2, <1>3 DEF Busy
  <1>5. RightWorker(r)'
    BY <1>1, <1>2, <1>4 DEF RightWorker, RightData
  <1>6. worker' = [worker EXCEPT ![w] = r]
    BY <1>1, <1>3
  <1>7. RightWorkers'
    BY <1>1, <1>5, <1>6, OneWorker
  <1> QED BY <1>1, <1>7, ServingKeeps, CacheKept DEF FileInvariant

\* The data of a file on the disk.
Fetched(p) ==
  LET paths == descriptors[RequestUnit][p].file_paths IN
  [filetype |-> descriptors[RequestUnit][p].filetype,
   file_encoding |-> IF "BROTLI" \in DOMAIN paths THEN "BROTLI" ELSE "NONE",
   content |-> IF ReadFile(paths) = None THEN Empty ELSE ReadFile(paths)]

LEMMA FetchedRight ==
  ASSUME FileInvariant, NEW p \in DOMAIN descriptors[RequestUnit]
  PROVE  RightData(p, Fetched(p))
  <1>1. SoundDisk /\ NotOlder /\ AllDescribed
    BY DEF FileInvariant
  <1>2. RequestUnit = FillUnit /\ p \in DOMAIN since /\ p \in Paths
    BY <1>1, NoFunctionEmpty DEF AllDescribed, NotOlder
  <1> DEFINE d == descriptors[FillUnit][p]
  <1>3. Described(p, d)
    BY <1>1, <1>2 DEF AllDescribed
  <1>4. /\ d.filetype \in FileTypes /\ d.file_paths["NONE"] = p
        /\ "BROTLI" \in DOMAIN d.file_paths => p \in Files /\ d.file_paths["BROTLI"] = Br(p) /\ Encoded(p)
    BY <1>3 DEF Described, Descriptors
  <1>5. PICK paths : paths = d.file_paths
    OBVIOUS
  <1>6. PICK c : c = ReadFile(paths)
    OBVIOUS
  <1>7. Fetched(p) = [filetype |-> d.filetype,
                      file_encoding |-> IF "BROTLI" \in DOMAIN paths THEN "BROTLI" ELSE "NONE",
                      content |-> IF c = None THEN Empty ELSE c]
    BY <1>2, <1>5, <1>6 DEF Fetched
  <1> HIDE DEF d
  <1>8. CASE "BROTLI" \in DOMAIN paths
    <2>1. c = disk[Br(p)] /\ p \in Files /\ Encoded(p)
      BY <1>4, <1>5, <1>6, <1>8 DEF ReadFile
    <2>2. /\ c # None /\ c \in Contents /\ c.of = p /\ c.form \in {"br", "padded", "short"} /\ c.version >= since[p]
      BY <1>1, <2>1, BrNames DEF SoundDisk, SoundEncoding, Encoded
    <2>3. Fetched(p) = [filetype |-> d.filetype, file_encoding |-> "BROTLI", content |-> c]
      BY <1>7, <1>8, <2>2
    <2>4. Fetched(p) \in Data /\ Fetched(p).content = c /\ Fetched(p).file_encoding = "BROTLI"
      BY <1>4, <2>2, <2>3 DEF Data
    <2> QED BY <1>2, <2>1, <2>2, <2>4, BrNames DEF RightData
  <1>9. CASE "BROTLI" \notin DOMAIN paths
    <2>1. c = disk[p]
      BY <1>4, <1>5, <1>6, <1>9 DEF ReadFile
    <2>2. c # None => /\ c \in Contents /\ c.of = Source(p) /\ c.version >= since[p]
                      /\ (p \in Files => c.form = "plain")
      BY <1>1, <1>2, <2>1, BrNames DEF SoundDisk, SoundFile, SoundEncoding, NotOlder
    <2>3. PICK body : body = IF c = None THEN Empty ELSE c
      OBVIOUS
    <2>4. Fetched(p) = [filetype |-> d.filetype, file_encoding |-> "NONE", content |-> body]
      BY <1>7, <1>9, <2>3
    <2>5. Fetched(p) \in Data /\ Fetched(p).content = body /\ Fetched(p).file_encoding = "NONE"
      BY <1>4, <2>2, <2>3, <2>4 DEF Data
    <2> QED BY <1>2, <2>2, <2>3, <2>5 DEF RightData
  <1> QED BY <1>8, <1>9

LEMMA FetchRight ==
  ASSUME FileInvariant, NEW w \in Workers, Fetch(w)
  PROVE  FileInvariant'
  <1>1. /\ phase = "serve" /\ UNCHANGED <<disk, descriptors, cache, phase, todo, writing, since>>
        /\ worker[w].pc = "fetch"
        /\ IF worker[w].path \notin DOMAIN descriptors[RequestUnit] THEN worker' = [worker EXCEPT ![w].pc = "404"]
           ELSE worker' = [worker EXCEPT ![w].pc = "insert", ![w].data = Fetched(worker[w].path)]
    BY DEF Fetch, At, Set, Fetched
  <1>2. worker[w] \in Busy /\ RightWorker(worker[w])
    BY <1>1, WorkerAt
  <1>3. PICK p : p = worker[w].path
    OBVIOUS
  <1>4. CASE p \notin DOMAIN descriptors[RequestUnit]
    <2>1. PICK r : r = [worker[w] EXCEPT !.pc = "404"]
      OBVIOUS
    <2>2. /\ r \in Busy /\ r.path = p /\ r.request = worker[w].request
          /\ r.data = worker[w].data /\ r.pc = "404"
      BY <1>2, <1>3, <2>1 DEF Busy
    <2>3. RightWorker(r)'
      BY <1>1, <1>2, <1>3, <1>4, <2>2 DEF RightWorker, RightData
    <2>4. worker' = [worker EXCEPT ![w] = r]
      BY <1>1, <1>3, <1>4, <2>1
    <2>5. RightWorkers'
      BY <1>1, <2>3, <2>4, OneWorker
    <2> QED BY <1>1, <2>5, ServingKeeps, CacheKept DEF FileInvariant
  <1>5. CASE p \in DOMAIN descriptors[RequestUnit]
    <2>0. PICK d : d = Fetched(p)
      OBVIOUS
    <2>1. RightData(p, d) /\ d \in Data
      BY <1>5, <2>0, FetchedRight DEF RightData
    <2>2. PICK r : r = [worker[w] EXCEPT !.pc = "insert", !.data = d]
      OBVIOUS
    <2>3. /\ r \in Busy /\ r.path = p /\ r.request = worker[w].request
          /\ r.data = d /\ r.pc = "insert"
      BY <1>2, <1>3, <2>1, <2>2 DEF Busy
    <2>4. RightWorker(r)'
      BY <1>1, <1>2, <1>3, <1>5, <2>1, <2>3 DEF RightWorker, RightData
    <2>5. worker' = [worker EXCEPT ![w] = r]
      BY <1>1, <1>2, <1>3, <1>5, <2>0, <2>2 DEF FileInvariant, RightWorkers, Busy
    <2>6. RightWorkers'
      BY <1>1, <2>4, <2>5, OneWorker
    <2> QED BY <1>1, <2>6, ServingKeeps, CacheKept DEF FileInvariant
  <1> QED BY <1>4, <1>5

LEMMA InsertRight ==
  ASSUME FileInvariant, NEW w \in Workers, Insert(w)
  PROVE  FileInvariant'
  <1>1. phase = "serve" /\ worker[w].pc = "insert" /\ UNCHANGED <<disk, descriptors, todo, writing, since>>
    BY DEF Insert, At
  <1>2. worker[w] \in Busy /\ RightWorker(worker[w])
    BY <1>1, WorkerAt
  <1>3. PICK r : r = [worker[w] EXCEPT !.pc = "read"]
    OBVIOUS
  <1>4. /\ r \in Busy /\ r.path = worker[w].path /\ r.request = worker[w].request
        /\ r.data = worker[w].data /\ r.pc = "read"
    BY <1>2, <1>3 DEF Busy
  <1>5. ASSUME DOMAIN cache[RequestUnit] \subseteq DOMAIN cache'[RequestUnit], Set(w, "read")
        PROVE  RightWorkers'
    <2>1. RightWorker(r)'
      BY <1>1, <1>2, <1>4, <1>5 DEF RightWorker, RightData
    <2>2. worker' = [worker EXCEPT ![w] = r]
      BY <1>3, <1>5 DEF Set
    <2> QED BY <1>1, <1>5, <2>1, <2>2, OneWorker
  <1>6. CASE Put(worker[w].path, worker[w].data) /\ Set(w, "read") /\ UNCHANGED phase
    <2>1. RightData(worker[w].path, worker[w].data)
      BY <1>2 DEF RightWorker
    <2>2. RightCache' /\ DOMAIN cache[RequestUnit] \subseteq DOMAIN cache'[RequestUnit]
      BY <1>1, <1>6, <2>1, CacheEntered
    <2>3. phase' \in {"serve", "dead"}
      BY <1>1, <1>6
    <2> QED BY <1>1, <1>5, <1>6, <2>2, <2>3, ServingKeeps DEF FileInvariant
  <1>7. CASE Set(w, "read") /\ UNCHANGED <<cache, phase>>
    <2>1. phase' \in {"serve", "dead"}
      BY <1>1, <1>7
    <2> QED BY <1>1, <1>5, <1>7, <2>1, ServingKeeps, CacheKept DEF FileInvariant
  <1>8. CASE phase' = "dead" /\ UNCHANGED <<cache, worker>>
    BY <1>1, <1>8, ServingKeeps, KeepServed DEF FileInvariant
  <1> QED BY <1>6, <1>7, <1>8 DEF Insert

LEMMA ReadRight ==
  ASSUME FileInvariant, NEW w \in Workers, Read(w)
  PROVE  FileInvariant'
  <1>1. phase = "serve" /\ worker[w].pc = "read" /\ UNCHANGED <<disk, descriptors, phase, todo, writing, since>>
    BY DEF Read, At
  <1>2. worker[w] \in Busy /\ RightWorker(worker[w])
    BY <1>1, WorkerAt
  <1>3. PICK p : p = worker[w].path
    OBVIOUS
  <1>4. PICK d : d = IF p \in DOMAIN cache[RequestUnit] THEN cache[RequestUnit][p] ELSE DefaultData
    OBVIOUS
  <1>5. Put(p, d) /\ worker' = [worker EXCEPT ![w].data = d, ![w].pc = "200"]
    BY <1>3, <1>4 DEF Read
  <1>6. RightData(p, d) /\ d \in Data
    BY <1>4, DefaultTyped DEF FileInvariant, RightCache, RightData
  <1>7. RightCache' /\ DOMAIN cache[RequestUnit] \subseteq DOMAIN cache'[RequestUnit]
    BY <1>1, <1>5, <1>6, CacheEntered
  <1>8. PICK r : r = [worker[w] EXCEPT !.data = d, !.pc = "200"]
    OBVIOUS
  <1>9. r \in Busy /\ r.path = p /\ r.request = worker[w].request /\ r.data = d /\ r.pc = "200"
    BY <1>2, <1>3, <1>6, <1>8 DEF Busy
  <1>10. RightWorker(r)'
    BY <1>1, <1>2, <1>3, <1>6, <1>9 DEF RightWorker, RightData
  <1>11. worker' = [worker EXCEPT ![w] = r]
    BY <1>2, <1>5, <1>8 DEF FileInvariant, RightWorkers, Busy
  <1>12. RightWorkers'
    BY <1>1, <1>7, <1>10, <1>11, OneWorker
  <1> QED BY <1>1, <1>7, <1>12, ServingKeeps DEF FileInvariant

LEMMA ReplyRight ==
  ASSUME FileInvariant, NEW w \in Workers, Reply(w)
  PROVE  FileInvariant'
  <1>1. /\ phase = "serve" /\ UNCHANGED <<disk, descriptors, cache, phase, todo, writing, since>>
        /\ worker' = [worker EXCEPT ![w] = Idle]
    BY DEF Reply, At
  <1>2. RightWorkers'
    BY <1>1, OneWorker
  <1> QED BY <1>1, <1>2, ServingKeeps, CacheKept DEF FileInvariant

-----------------------------------------------------------------------------
(* The invariant is one.                                                   *)

LEMMA NextRight ==
  ASSUME FileInvariant, [Next]_vars
  PROVE  FileInvariant'
  <1>1. CASE UNCHANGED vars
    <2>1. Encoding' /\ NotYet'
      BY <1>1 DEF vars, FileInvariant, Encoding, NotYet
    <2>2. SoundDisk' /\ NotOlder' /\ AllDescribed'
      BY <1>1, KeepDisk, KeepDescribed DEF vars
    <2>3. RightCache' /\ RightWorkers'
      BY <1>1, KeepServed DEF vars
    <2> QED BY <2>1, <2>2, <2>3 DEF FileInvariant
  <1>2. CASE construct_file_descriptors
    BY <1>2, ScanRight
  <1>3. CASE ScanThrows \/ StartServers
    BY <1>3, PhaseRight
  <1>4. ASSUME NEW p \in Paths, EncodeSkips(p) \/ EncodeThrows(p) \/ encode(p) PROVE FileInvariant'
    BY <1>4, SkipRight, PhaseRight, EncodeRight
  <1>5. CASE write_to_file
    BY <1>5, WriteRight
  <1>6. ASSUME NEW w \in Workers, Work(w) PROVE FileInvariant'
    <2>1. ASSUME NEW request \in Requests, Handle(w, request) PROVE FileInvariant'
      BY <2>1, HandleRight
    <2> QED BY <1>6, <2>1, LookupRight, FetchRight, InsertRight, ReadRight, ReplyRight DEF Work
  <1>7. ASSUME NEW f \in Files, Edit(f) \/ Delete(f) PROVE FileInvariant'
    BY <1>7, WorldRight
  <1>8. CASE Restart
    BY <1>8, RestartRight
  <1> QED BY <1>1, <1>2, <1>3, <1>4, <1>5, <1>6, <1>7, <1>8 DEF Next

(***************************************************************************)
(* Disk, descriptors, cache and workers agree in every state, also after a *)
(* run that was killed while it wrote an encoded file.                     *)
(***************************************************************************)
THEOREM FilesInvariant == Spec => []FileInvariant
  BY InitRight, NextRight, PTL DEF Spec

-----------------------------------------------------------------------------
(* What follows.                                                           *)

(***************************************************************************)
(* Whatever earlier runs left on the disk, whatever is edited or deleted   *)
(* meanwhile, however much of a write the disk took and however the        *)
(* workers interleave in the cache, get_file and prepare_response send     *)
(* nothing but the file asked for, not older than the start of the program *)
(* and announced as br only when this run wrote its encoding to the end.   *)
(***************************************************************************)
THEOREM ContentRight == Spec => []RightContent
  <1>1. FileInvariant => RightContent
    <2> SUFFICES ASSUME FileInvariant, NEW w \in Workers, At(w, "200"), response(w).body # Empty
                 PROVE  LET r == response(w)
                            p == worker[w].path
                        IN /\ r.body.of = Source(p)
                           /\ r.encoding = "br" => r.body.form \in {"br", "padded", "short"} /\ p \in Files
                           /\ r.encoding = "" /\ p \in Files => r.body.form = "plain"
                           /\ r.body.version >= since[p]
      BY DEF RightContent
    <2>1. RightWorker(worker[w])
      BY WorkerAt DEF At
    <2>2. PICK p : p = worker[w].path
      OBVIOUS
    <2>3. PICK d : d = worker[w].data
      OBVIOUS
    <2>4. RightData(p, d)
      BY <2>1, <2>2, <2>3 DEF RightWorker
    <2>5. response(w).body = d.content /\ d.content # Empty
      BY <2>3 DEF response
    <2>6. response(w).encoding = file_encoding_map[d.file_encoding]
      BY <2>3 DEF response
    <2>7. /\ response(w).encoding = "br" => d.file_encoding = "BROTLI"
          /\ response(w).encoding = "" => d.file_encoding = "NONE"
      <3>1. d.file_encoding \in {"NONE", "BROTLI"}
        BY <2>4 DEF RightData, Data
      <3>2. file_encoding_map["NONE"] = "" /\ file_encoding_map["BROTLI"] = "br"
        BY DEF file_encoding_map
      <3> QED BY <2>6, <3>1, <3>2
    <2> QED BY <2>2, <2>4, <2>5, <2>7 DEF RightData
  <1> QED BY <1>1, FilesInvariant, PTL

(***************************************************************************)
(* A cache that holds every file is not written again: get_file inserts    *)
(* only what is missing, and operator[] finds what it looks for.           *)
(***************************************************************************)
THEOREM WarmKept == Spec => StaysWarm
  <1>1. ASSUME FileInvariant, [Next]_vars PROVE [WarmStep]_vars
    <2> SUFFICES ASSUME Warm, phase' = "serve", Next PROVE cache' = cache /\ Warm'
      BY <1>1 DEF WarmStep
    <2> USE <1>1
    <2>0. /\ phase = "serve" /\ DOMAIN descriptors[RequestUnit] \subseteq DOMAIN cache[RequestUnit]
          /\ \A v \in Workers : worker[v].pc # "insert"
          /\ \A v \in Workers : worker[v].pc = "fetch" => worker[v].path \notin DOMAIN descriptors[RequestUnit]
      BY DEF Warm, At
    <2>1. ASSUME UNCHANGED <<descriptors, cache, worker>>
          PROVE  cache' = cache /\ Warm'
      BY <2>0, <2>1 DEF Warm, At
    <2>2. worker \in [Workers -> Busy \cup {Idle}]
      BY DEF FileInvariant, RightWorkers
    <2>3. ASSUME NEW w \in Workers, UNCHANGED <<descriptors, cache>>,
                 \A v \in Workers : v # w => worker'[v] = worker[v],
                 worker'[w].pc # "insert",
                 worker'[w].pc = "fetch" => worker'[w].path \notin DOMAIN descriptors[RequestUnit]
          PROVE  cache' = cache /\ Warm'
      <3>1. ASSUME NEW v \in Workers
            PROVE  worker'[v].pc # "insert" /\ (worker'[v].pc = "fetch" => worker'[v].path \notin DOMAIN descriptors[RequestUnit])
        BY <2>0, <2>3, <3>1
      <3> QED BY <2>0, <2>3, <3>1 DEF Warm, At
    <2>4. ASSUME NEW w \in Workers, Work(w) PROVE cache' = cache /\ Warm'
      <3>1. ASSUME NEW request \in Requests, Handle(w, request) PROVE cache' = cache /\ Warm'
        <4>1. UNCHANGED <<descriptors, cache>> /\ worker'[w].pc = "lookup" /\ \A v \in Workers : v # w => worker'[v] = worker[v]
          BY <2>2, <3>1 DEF Handle
        <4> QED BY <2>3, <4>1
      <3>2. CASE Lookup(w)
        <4>1. /\ UNCHANGED <<descriptors, cache>> /\ \A v \in Workers : v # w => worker'[v] = worker[v]
              /\ worker[w].pc = "lookup"
          BY <2>2, <3>2 DEF Lookup, Set, At
        <4>2. worker[w] \in Busy
          BY <4>1, WorkerAt
        <4>3. /\ worker'[w].pc = IF worker[w].path \in DOMAIN cache[RequestUnit] THEN "read" ELSE "fetch"
              /\ worker'[w].path = worker[w].path
          BY <2>2, <3>2, <4>2 DEF Lookup, Set, Busy
        <4> QED BY <2>0, <2>3, <4>1, <4>3
      <3>3. CASE Fetch(w)
        <4>1. /\ worker[w].pc = "fetch" /\ UNCHANGED <<descriptors, cache>>
              /\ \A v \in Workers : v # w => worker'[v] = worker[v]
          BY <2>2, <3>3 DEF Fetch, Set, At
        <4>2. worker' = [worker EXCEPT ![w].pc = "404"]
          BY <2>0, <3>3, <4>1 DEF Fetch, Set
        <4>3. worker[w] \in Busy
          BY <4>1, WorkerAt
        <4>4. worker'[w].pc = "404"
          BY <2>2, <4>2, <4>3 DEF Busy
        <4> QED BY <2>3, <4>1, <4>4
      <3>4. CASE Insert(w)
        BY <2>0, <3>4 DEF Insert, At
      <3>5. CASE Read(w)
        <4>1. worker[w].pc = "read" /\ UNCHANGED descriptors
          BY <3>5 DEF Read, At
        <4>2. worker[w] \in Busy /\ RightWorker(worker[w])
          BY <4>1, WorkerAt
        <4>3. PICK p : p = worker[w].path
          OBVIOUS
        <4>4. p \in DOMAIN cache[RequestUnit]
          BY <2>0, <4>1, <4>2, <4>3 DEF RightWorker
        <4>5. /\ cache' = [cache EXCEPT ![RequestUnit] = Entered(@, p, cache[RequestUnit][p])]
              /\ worker' = [worker EXCEPT ![w].data = cache[RequestUnit][p], ![w].pc = "200"]
          BY <3>5, <4>3, <4>4 DEF Read, Put
        <4>6. /\ cache = [u \in Units |-> IF u = RequestUnit THEN cache[u] ELSE NoFunction]
              /\ cache[RequestUnit] \in [DOMAIN cache[RequestUnit] -> Data]
          BY DEF FileInvariant, RightCache
        <4>7. Entered(cache[RequestUnit], p, cache[RequestUnit][p]) = cache[RequestUnit]
          BY <4>4, <4>6 DEF Entered
        <4>8. cache' = cache
          BY <4>5, <4>6, <4>7
        <4>9. cache[RequestUnit][p] \in Data
          BY <4>4, <4>6
        <4>10. /\ worker'[w].pc = "200" /\ \A v \in Workers : v # w => worker'[v] = worker[v]
          BY <2>2, <4>2, <4>5, <4>9 DEF Busy
        <4> QED BY <2>3, <4>1, <4>8, <4>10
      <3>6. CASE Reply(w)
        <4>1. UNCHANGED <<descriptors, cache>> /\ worker'[w].pc = "idle" /\ \A v \in Workers : v # w => worker'[v] = worker[v]
          BY <2>2, <3>6 DEF Reply, Idle
        <4> QED BY <2>3, <4>1
      <3> QED BY <2>4, <3>1, <3>2, <3>3, <3>4, <3>5, <3>6 DEF Work
    <2>5. CASE construct_file_descriptors \/ ScanThrows \/ StartServers
      BY <2>0, <2>5 DEF construct_file_descriptors, ScanThrows, StartServers
    <2>6. ASSUME NEW p \in Paths, EncodeSkips(p) \/ EncodeThrows(p) \/ encode(p) PROVE FALSE
      BY <2>0, <2>6 DEF EncodeSkips, EncodeThrows, encode
    <2>7. CASE write_to_file
      BY <2>0, <2>7 DEF write_to_file, FileInvariant, Encoding
    <2>8. ASSUME NEW f \in Files, Edit(f) \/ Delete(f) PROVE cache' = cache /\ Warm'
      BY <2>1, <2>8 DEF Edit, Delete
    <2>9. CASE Restart
      BY <2>9 DEF Restart
    <2> QED BY <2>4, <2>5, <2>6, <2>7, <2>8, <2>9 DEF Next
  <1> QED BY <1>1, FilesInvariant, PTL DEF Spec, StaysWarm

-----------------------------------------------------------------------------
(* Empty answers.                                                          *)

Excused(p) == raced \/ disk[p] = None
ExcusedData(p, d) == d.content = Empty => Excused(p)
ExcusedWorker(r) ==
  /\ r.pc \in {"insert", "200"} => ExcusedData(r.path, r.data)
  /\ r.pc = "read" => raced \/ r.path \in DOMAIN cache[RequestUnit]
ExcusedCache == \A p \in DOMAIN cache[RequestUnit] : ExcusedData(p, cache[RequestUnit][p])
ExcusedWorkers == \A w \in Workers : worker[w] # Idle => ExcusedWorker(worker[w])

(***************************************************************************)
(* EmptyOnlyIfGone speaks of the second look-up.  What it finds was        *)
(* inserted by this worker or by another one, from a file that was there   *)
(* or was not; and what the first look-up found is still there.            *)
(***************************************************************************)
EmptyInvariant == ExcusedCache /\ ExcusedWorkers

LEMMA EmptyKept ==
  ASSUME FileInvariant, EmptyInvariant, UNCHANGED <<cache, worker, raced>>,
         \A p : disk[p] = None => disk'[p] = None
  PROVE  EmptyInvariant'
  BY DEF EmptyInvariant, ExcusedCache, ExcusedWorkers, ExcusedWorker, ExcusedData, Excused

\* Nobody is served yet.
LEMMA EmptyUnserved ==
  ASSUME FileInvariant', phase' \in {"scan", "encode"}
  PROVE  EmptyInvariant'
  BY NoFunctionEmpty DEF FileInvariant, NotYet, EmptyInvariant, ExcusedCache, ExcusedWorkers

\* One worker moves, and the cache loses no entry.
LEMMA EmptyWorker ==
  ASSUME FileInvariant, EmptyInvariant, NEW w \in Workers, NEW r, worker' = [worker EXCEPT ![w] = r],
         r = Idle \/ ExcusedWorker(r)', UNCHANGED disk, raced => raced',
         DOMAIN cache[RequestUnit] \subseteq DOMAIN cache'[RequestUnit]
  PROVE  ExcusedWorkers'
  <1>1. worker \in [Workers -> Busy \cup {Idle}]
    BY DEF FileInvariant, RightWorkers
  <1>2. ASSUME NEW v \in Workers, worker'[v] # Idle PROVE ExcusedWorker(worker[v])'
    <2>1. CASE v = w
      <3>1. worker'[v] = r
        BY <1>1, <2>1
      <3> QED BY <1>2, <3>1 DEF ExcusedWorker, ExcusedData, Excused
    <2>2. CASE v # w
      <3>1. worker'[v] = worker[v] /\ ExcusedWorker(worker[v])
        BY <1>1, <1>2, <2>2 DEF EmptyInvariant, ExcusedWorkers
      <3> QED BY <3>1 DEF ExcusedWorker, ExcusedData, Excused
    <2> QED BY <2>1, <2>2
  <1> QED BY <1>2 DEF ExcusedWorkers

LEMMA EmptyCacheKept ==
  ASSUME EmptyInvariant, UNCHANGED <<cache, disk>>, raced => raced'
  PROVE  ExcusedCache'
  BY DEF EmptyInvariant, ExcusedCache, ExcusedData, Excused

\* Excused data enters the cache.
LEMMA EmptyCacheEntered ==
  ASSUME FileInvariant, EmptyInvariant, NEW p, NEW d, Put(p, d), ExcusedData(p, d)',
         UNCHANGED disk, raced => raced'
  PROVE  ExcusedCache' /\ DOMAIN cache'[RequestUnit] = DOMAIN cache[RequestUnit] \cup {p}
  <1>1. cache'[RequestUnit] = Entered(cache[RequestUnit], p, d)
    BY DEF FileInvariant, RightCache, Put
  <1>2. /\ DOMAIN cache'[RequestUnit] = DOMAIN cache[RequestUnit] \cup {p}
        /\ cache'[RequestUnit][p] = d
        /\ \A q \in DOMAIN cache[RequestUnit] : q # p => cache'[RequestUnit][q] = cache[RequestUnit][q]
    BY <1>1 DEF Entered
  <1>3. ASSUME NEW q \in DOMAIN cache'[RequestUnit] PROVE ExcusedData(q, cache[RequestUnit][q])'
    <2>1. CASE q = p
      BY <1>2, <2>1 DEF ExcusedData, Excused
    <2>2. CASE q # p
      <3>1. q \in DOMAIN cache[RequestUnit] /\ ExcusedData(q, cache[RequestUnit][q])
        BY <1>2, <2>2 DEF EmptyInvariant, ExcusedCache
      <3>2. cache'[RequestUnit][q] = cache[RequestUnit][q]
        BY <1>2, <2>2, <3>1
      <3> QED BY <3>1, <3>2 DEF ExcusedData, Excused
    <2> QED BY <2>1, <2>2
  <1> QED BY <1>2, <1>3 DEF ExcusedCache

\* What is fetched is empty only if the file is gone.
LEMMA FetchedExcused ==
  ASSUME FileInvariant, NEW p \in DOMAIN descriptors[RequestUnit]
  PROVE  ExcusedData(p, Fetched(p))
  <1>1. SoundDisk /\ NotOlder /\ AllDescribed
    BY DEF FileInvariant
  <1>2. RequestUnit = FillUnit /\ p \in DOMAIN since /\ p \in Paths
    BY <1>1, NoFunctionEmpty DEF AllDescribed, NotOlder
  <1>3. PICK paths : paths = descriptors[FillUnit][p].file_paths
    OBVIOUS
  <1>4. /\ paths["NONE"] = p
        /\ "BROTLI" \in DOMAIN paths => p \in Files /\ paths["BROTLI"] = Br(p) /\ Encoded(p)
    BY <1>1, <1>2, <1>3 DEF AllDescribed, Described
  <1>5. PICK c : c = ReadFile(paths)
    OBVIOUS
  <1>6. Fetched(p).content = IF c = None THEN Empty ELSE c
    BY <1>2, <1>3, <1>5 DEF Fetched
  <1>7. c # None => c \in Contents
    BY <1>1, <1>2, <1>4, <1>5, BrNames DEF ReadFile, SoundDisk
  <1>8. c = None => disk[p] = None
    BY <1>4, <1>5 DEF ReadFile, Encoded
  <1> QED BY <1>6, <1>7, <1>8 DEF ExcusedData, Excused

LEMMA WorkEmpty ==
  ASSUME FileInvariant, EmptyInvariant, NEW w \in Workers, Work(w)
  PROVE  EmptyInvariant'
  <1>1. ASSUME NEW request \in Requests, Handle(w, request) PROVE EmptyInvariant'
    <2>1. PICK r : r = [pc |-> "lookup", request |-> request,
                        path |-> convert_to_filedirectory(request), data |-> DefaultData]
      OBVIOUS
    <2>2. worker' = [worker EXCEPT ![w] = r] /\ UNCHANGED <<disk, cache, raced>> /\ r.pc = "lookup"
      BY <1>1, <2>1 DEF Handle
    <2>3. ExcusedWorker(r)'
      BY <2>2 DEF ExcusedWorker
    <2> QED BY <2>2, <2>3, EmptyWorker, EmptyCacheKept DEF EmptyInvariant
  <1>2. CASE Lookup(w)
    <2>1. PICK pc : pc = IF worker[w].path \in DOMAIN cache[RequestUnit] THEN "read" ELSE "fetch"
      OBVIOUS
    <2>2. worker[w].pc = "lookup" /\ worker' = [worker EXCEPT ![w].pc = pc] /\ UNCHANGED <<disk, cache, raced>>
      BY <1>2, <2>1 DEF Lookup, At, Set
    <2>3. worker[w] \in Busy
      BY <2>2, WorkerAt
    <2>4. PICK r : r = [worker[w] EXCEPT !.pc = pc]
      OBVIOUS
    <2>5. r.pc = pc /\ r.path = worker[w].path /\ worker' = [worker EXCEPT ![w] = r]
      BY <2>2, <2>3, <2>4 DEF Busy
    <2>6. ExcusedWorker(r)'
      BY <2>1, <2>2, <2>5 DEF ExcusedWorker
    <2> QED BY <2>2, <2>5, <2>6, EmptyWorker, EmptyCacheKept DEF EmptyInvariant
  <1>3. CASE Fetch(w)
    <2>1. /\ worker[w].pc = "fetch" /\ UNCHANGED <<disk, cache, raced>>
          /\ IF worker[w].path \notin DOMAIN descriptors[RequestUnit] THEN worker' = [worker EXCEPT ![w].pc = "404"]
             ELSE worker' = [worker EXCEPT ![w].pc = "insert", ![w].data = Fetched(worker[w].path)]
      BY <1>3 DEF Fetch, At, Set, Fetched
    <2>2. worker[w] \in Busy
      BY <2>1, WorkerAt
    <2>3. CASE worker[w].path \notin DOMAIN descriptors[RequestUnit]
      <3>1. PICK r : r = [worker[w] EXCEPT !.pc = "404"]
        OBVIOUS
      <3>2. r.pc = "404" /\ worker' = [worker EXCEPT ![w] = r]
        BY <2>1, <2>2, <2>3, <3>1 DEF Busy
      <3>3. ExcusedWorker(r)'
        BY <3>2 DEF ExcusedWorker
      <3> QED BY <2>1, <3>2, <3>3, EmptyWorker, EmptyCacheKept DEF EmptyInvariant
    <2>4. CASE worker[w].path \in DOMAIN descriptors[RequestUnit]
      <3>1. PICK d : d = Fetched(worker[w].path)
        OBVIOUS
      <3>2. PICK r : r = [worker[w] EXCEPT !.pc = "insert", !.data = d]
        OBVIOUS
      <3>3. r.pc = "insert" /\ r.data = d /\ r.path = worker[w].path
        BY <2>2, <3>2 DEF Busy
      <3>4. worker' = [worker EXCEPT ![w] = r]
        BY <2>1, <2>2, <2>4, <3>1, <3>2 DEF FileInvariant, RightWorkers, Busy
      <3>5. ExcusedData(worker[w].path, d)
        BY <2>4, <3>1, FetchedExcused
      <3>6. ExcusedWorker(r)'
        BY <2>1, <3>3, <3>5 DEF ExcusedWorker, ExcusedData, Excused
      <3> QED BY <2>1, <3>4, <3>6, EmptyWorker, EmptyCacheKept DEF EmptyInvariant
    <2> QED BY <2>3, <2>4
  <1>4. CASE Insert(w)
    <2>1. /\ worker[w].pc = "insert" /\ UNCHANGED disk /\ raced' = (raced \/ Racing(w))
          /\ \/ Put(worker[w].path, worker[w].data) /\ Set(w, "read")
             \/ Racing(w) /\ Set(w, "read") /\ UNCHANGED cache
             \/ UNCHANGED <<cache, worker>>
      BY <1>4 DEF Insert, At
    <2>2. worker[w] \in Busy /\ worker[w] # Idle
      BY <2>1, WorkerAt DEF Idle
    <2>3. ExcusedData(worker[w].path, worker[w].data)
      BY <2>1, <2>2 DEF EmptyInvariant, ExcusedWorkers, ExcusedWorker
    <2>4. raced => raced'
      BY <2>1
    <2>5. PICK r : r = [worker[w] EXCEPT !.pc = "read"]
      OBVIOUS
    <2>6. r.pc = "read" /\ r.path = worker[w].path
      BY <2>2, <2>5 DEF Busy
    <2>7. Set(w, "read") => worker' = [worker EXCEPT ![w] = r]
      BY <2>5 DEF Set
    <2>8. CASE Put(worker[w].path, worker[w].data) /\ Set(w, "read")
      <3>1. ExcusedData(worker[w].path, worker[w].data) => (raced' \/ disk'[worker[w].path] = None \/ worker[w].data.content # Empty)
        BY <2>1, <2>4 DEF ExcusedData, Excused
      <3>2. PICK p : p = worker[w].path
        OBVIOUS
      <3>3. PICK d : d = worker[w].data
        OBVIOUS
      <3>4. ExcusedData(p, d)'
        BY <2>3, <3>1, <3>2, <3>3 DEF ExcusedData, Excused
      <3>5. ExcusedCache' /\ DOMAIN cache'[RequestUnit] = DOMAIN cache[RequestUnit] \cup {p}
        BY <2>1, <2>4, <2>8, <3>2, <3>3, <3>4, EmptyCacheEntered
      <3>6. ExcusedWorker(r)'
        BY <2>6, <3>2, <3>5 DEF ExcusedWorker
      <3> QED BY <2>1, <2>4, <2>7, <2>8, <3>5, <3>6, EmptyWorker DEF EmptyInvariant
    <2>9. CASE Racing(w) /\ Set(w, "read") /\ UNCHANGED cache
      <3>1. ExcusedWorker(r)'
        BY <2>1, <2>6, <2>9 DEF ExcusedWorker
      <3> QED BY <2>1, <2>4, <2>7, <2>9, <3>1, EmptyWorker, EmptyCacheKept DEF EmptyInvariant
    <2>10. CASE UNCHANGED <<cache, worker>>
      BY <2>1, <2>4, <2>10 DEF EmptyInvariant, ExcusedCache, ExcusedWorkers, ExcusedWorker, ExcusedData, Excused
    <2> QED BY <2>1, <2>8, <2>9, <2>10
  <1>5. CASE Read(w)
    <2>1. worker[w].pc = "read" /\ UNCHANGED <<disk, raced>>
      BY <1>5 DEF Read, At
    <2>2. worker[w] \in Busy /\ worker[w] # Idle
      BY <2>1, WorkerAt DEF Idle
    <2>3. PICK p : p = worker[w].path
      OBVIOUS
    <2>4. raced \/ p \in DOMAIN cache[RequestUnit]
      BY <2>1, <2>2, <2>3 DEF EmptyInvariant, ExcusedWorkers, ExcusedWorker
    <2>5. PICK d : d = IF p \in DOMAIN cache[RequestUnit] THEN cache[RequestUnit][p] ELSE DefaultData
      OBVIOUS
    <2>6. Put(p, d) /\ worker' = [worker EXCEPT ![w].data = d, ![w].pc = "200"]
      BY <1>5, <2>3, <2>5 DEF Read
    <2>7. ExcusedData(p, d)'
      BY <2>1, <2>4, <2>5 DEF EmptyInvariant, ExcusedCache, ExcusedData, Excused
    <2>8. ExcusedCache' /\ DOMAIN cache'[RequestUnit] = DOMAIN cache[RequestUnit] \cup {p}
      BY <2>1, <2>6, <2>7, EmptyCacheEntered
    <2>9. PICK r : r = [worker[w] EXCEPT !.data = d, !.pc = "200"]
      OBVIOUS
    <2>10. r.pc = "200" /\ r.data = d /\ r.path = p
      BY <2>2, <2>3, <2>9 DEF Busy
    <2>11. worker' = [worker EXCEPT ![w] = r]
      BY <2>2, <2>6, <2>9 DEF FileInvariant, RightWorkers, Busy
    <2>12. ExcusedWorker(r)'
      BY <2>7, <2>10 DEF ExcusedWorker, ExcusedData, Excused
    <2> QED BY <2>1, <2>8, <2>11, <2>12, EmptyWorker DEF EmptyInvariant
  <1>6. CASE Reply(w)
    <2>1. worker' = [worker EXCEPT ![w] = Idle] /\ UNCHANGED <<disk, cache, raced>>
      BY <1>6 DEF Reply
    <2> QED BY <2>1, EmptyWorker, EmptyCacheKept DEF EmptyInvariant
  <1> QED BY <1>1, <1>2, <1>3, <1>4, <1>5, <1>6 DEF Work

LEMMA NextEmpty ==
  ASSUME FileInvariant, EmptyInvariant, FileInvariant', [Next]_vars
  PROVE  EmptyInvariant'
  <1>1. ASSUME UNCHANGED <<disk, cache, worker, raced>> PROVE EmptyInvariant'
    BY <1>1, EmptyKept
  <1>2. CASE UNCHANGED vars
    BY <1>1, <1>2 DEF vars
  <1>3. CASE construct_file_descriptors \/ ScanThrows \/ StartServers
    BY <1>1, <1>3 DEF construct_file_descriptors, ScanThrows, StartServers
  <1>4. ASSUME NEW p \in Paths, EncodeSkips(p) \/ EncodeThrows(p) \/ encode(p) PROVE EmptyInvariant'
    <2>1. CASE EncodeSkips(p) \/ EncodeThrows(p)
      BY <1>1, <2>1 DEF EncodeSkips, EncodeThrows
    <2>2. CASE encode(p)
      BY <2>2, EmptyUnserved DEF encode
    <2> QED BY <1>4, <2>1, <2>2
  <1>5. CASE write_to_file
    BY <1>5, EmptyUnserved DEF write_to_file, FileInvariant, Encoding
  <1>6. ASSUME NEW w \in Workers, Work(w) PROVE EmptyInvariant'
    BY <1>6, WorkEmpty
  <1>7. ASSUME NEW f \in Files, Edit(f) \/ Delete(f) PROVE EmptyInvariant'
    <2>1. UNCHANGED <<cache, worker, raced>> /\ disk \in [Paths -> Contents \cup {None}] /\ f \in Paths
      BY <1>7, BrNames DEF Edit, Delete, FileInvariant, SoundDisk
    <2>2. CASE Edit(f)
      <3>1. disk[f] # None /\ disk' = [disk EXCEPT ![f] = [disk[f] EXCEPT !.version = @ + 1]]
        BY <2>2 DEF Edit
      <3>2. \A p : disk[p] = None => disk'[p] = None
        BY <2>1, <3>1
      <3> QED BY <2>1, <3>2, EmptyKept
    <2>3. CASE Delete(f)
      <3>1. \A p : disk[p] = None => disk'[p] = None
        BY <2>1, <2>3 DEF Delete
      <3> QED BY <2>1, <3>1, EmptyKept
    <2> QED BY <1>7, <2>2, <2>3
  <1>8. CASE Restart
    BY <1>8, EmptyUnserved DEF Restart
  <1> QED BY <1>2, <1>3, <1>4, <1>5, <1>6, <1>7, <1>8 DEF Next

(***************************************************************************)
(* For any number of workers and files, get_file answers with an empty     *)
(* body only when the file is gone, or when the cache was written while    *)
(* another worker used it.                                                 *)
(***************************************************************************)
THEOREM EmptyExplained == Spec => []EmptyOnlyIfGone
  <1>1. Init => EmptyInvariant
    BY NoFunctionEmpty DEF Init, EmptyInvariant, ExcusedCache, ExcusedWorkers
  <1>2. FileInvariant /\ EmptyInvariant => EmptyOnlyIfGone
    <2> SUFFICES ASSUME FileInvariant, EmptyInvariant, NEW w \in Workers, At(w, "200"),
                        worker[w].request.method = "GET", response(w).body = Empty
                 PROVE  raced \/ disk[worker[w].path] = None
      BY DEF EmptyOnlyIfGone
    <2>1. worker[w].pc = "200" /\ worker[w] # Idle
      BY DEF At, Idle
    <2>2. worker[w].data.content = Empty
      BY DEF response
    <2> QED BY <2>1, <2>2 DEF EmptyInvariant, ExcusedWorkers, ExcusedWorker, ExcusedData, Excused
  <1> QED BY <1>1, <1>2, NextEmpty, FilesInvariant, PTL DEF Spec
=============================================================================
