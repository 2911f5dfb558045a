------------------------------ MODULE Generator -----------------------------
(***************************************************************************)
(* The generator of packet IDs (tools/mcproto): runs of the program, each  *)
(* for one version, that may overlap, fail or be killed at any step, and   *)
(* that share a cache of downloaded files which survives them.  A class    *)
(* name is the sequence of its packages and the sequence of the words of   *)
(* its simple name.                                                        *)
(***************************************************************************)
EXTENDS Integers, Sequences, FiniteSetsExt, Functions

CONSTANTS
  Runs,      \* runs of the program
  Versions,  \* the versions they are called with
  Mapping,   \* for each version the mapping file: lines [obf, path, words, inner]
  Jar,       \* for each version the JAR: the integer constants of each obfuscated class
  NoFile     \* a file that does not exist

\* A version is none of the words that stand for something else below.
ASSUME VersionsAssumption ==
  /\ Versions \cap {"server.txt", "mixed", "none", "fallback"} = {}
  /\ \A v \in Versions : Mapping[v] \in Seq(Range(Mapping[v]))

VARIABLES
  gen,      \* for each run [ver, pc, names, from, whole]: its mappings, the version
            \* they are of, and whether the file was complete
  cache,    \* the files of the cache directory: [ver, full, by]
  outputs   \* what was generated: a set of [ver, from, whole, defs]

GenVars == <<gen, cache, outputs>>

Files == {"server.txt"} \cup Versions   \* Versions: the JARs, named by version

Fresh(v, pc) == [ver |-> v, pc |-> pc, names |-> {}, from |-> "none", whole |-> FALSE]
GenInit ==
  /\ gen \in [Runs -> {Fresh(v, "manifest") : v \in Versions}]
  /\ cache = [f \in Files |-> NoFile]
  /\ outputs = {}

\* protocolSubpackages, and the name and class of a packet.
protocolSubpackages ==
  {"handshake", "status", "login", "configuration", "common", "game", "ping"}
StateOf(path) ==
  LET subs == {i \in 1..Len(path) : path[i] \in protocolSubpackages}
      sub == IF subs = {} THEN "play" ELSE path[Max(subs)]
  IN  IF sub = "common" THEN "play" ELSE IF sub = "ping" THEN "status" ELSE sub
BoundOf(words) ==
  IF Range(words) \cap {"Clientbound", "Client"} # {} THEN "clientbound" ELSE "serverbound"
extractCleanName(words) ==
  LET rest == IF Head(words) \in {"Clientbound", "Serverbound", "Client", "Server"}
              THEN Tail(words) ELSE words
      base == SubSeq(rest, 1, Len(rest) - 1)
  IN  IF base = <<>> THEN words ELSE base
protocolPackets(m) ==
  {[obf |-> c.obf, key |-> <<StateOf(c.path), BoundOf(c.words), extractCleanName(c.words)>>] :
     c \in {d \in m : d.path[1] = "protocol" /\ d.words[Len(d.words)] = "Packet" /\ ~d.inner}}

\* The smallest constant that may be an ID.
pickPacketID(ints) == IF ints \cap 0..255 = {} THEN -1 ELSE Min(ints \cap 0..255)

\* Of two classes with the same key the one that the iteration over the map
\* meets first is taken: any.
extractPacketIDs(packets, jar) ==
  LET found == {p \in packets : p.obf \in DOMAIN jar /\ pickPacketID(jar[p.obf]) # -1}
      keys == {p.key : p \in found}
      pick == {f \in [keys -> found] : \A k \in keys : f[k].key = k}
  IN  {{[key |-> k, id |-> pickPacketID(jar[f[k].obf])] : k \in keys} : f \in pick}

Move(r, from, to) == gen[r].pc = from /\ gen' = [gen EXCEPT ![r].pc = to]
Leave(r, to) == gen' = [gen EXCEPT ![r] = Fresh(gen[r].ver, to)]

\* The manifest and the metadata of the version.  A request that fails, here or
\* later, makes the program use its built-in definitions.
fetchManifest(r) == Move(r, "manifest", "map") /\ UNCHANGED <<cache, outputs>>
RequestFails(r) ==
  /\ gen[r].pc \in {"manifest", "map get", "map copy", "jar get", "jar copy"}
  /\ Leave(r, "fallback")
  /\ UNCHANGED <<cache, outputs>>
Kill(r) ==
  /\ gen[r].pc \notin {"done", "killed"} /\ Leave(r, "killed")
  /\ UNCHANGED <<cache, outputs>>

\* The file a run is about: one for the mappings of all versions, one per JAR.
FileUnnamed(r) ==  \* mutant of File: one file for the JARs of all versions too
  IF gen[r].pc \in {"map", "map get", "map copy", "map read"} THEN "server.txt"
  ELSE CHOOSE v \in Versions : TRUE
File(r) == IF gen[r].pc \in {"map", "map get", "map copy", "map read"} THEN "server.txt"
           ELSE gen[r].ver
\* downloadFile: a file that exists is taken as it is; else it is created when
\* the response arrives, and filled.  A later os.Create truncates it, and what
\* runs of two versions write to one file is a mixture.
Stat(r, stage) ==
  /\ \/ cache[File(r)] # NoFile /\ Move(r, stage[1], stage[4])
     \/ cache[File(r)] = NoFile /\ Move(r, stage[1], stage[2])
  /\ UNCHANGED <<cache, outputs>>
Create(r, stage) ==
  /\ Move(r, stage[2], stage[3])
  /\ LET mixed == \E q \in Runs \ {r} : /\ gen[q].pc = stage[3] /\ File(q) = File(r)
                                         /\ gen[q].ver # gen[r].ver
     IN  cache' = [cache EXCEPT ![File(r)] =
                     [ver |-> IF mixed THEN "mixed" ELSE gen[r].ver, full |-> FALSE, by |-> r]]
  /\ UNCHANGED outputs
Copied(r, stage) ==
  /\ Move(r, stage[3], stage[4])
  /\ cache' = [cache EXCEPT ![File(r)].full = @ \/ cache[File(r)].by = r]
  /\ UNCHANGED outputs
MapStage == <<"map", "map get", "map copy", "map read">>
JarStage == <<"jar", "jar get", "jar copy", "jar read">>
downloadFile(r) ==
  \E stage \in {MapStage, JarStage} : Stat(r, stage) \/ Create(r, stage) \/ Copied(r, stage)

\* A mapping file that is not complete gives the classes of its first lines, and
\* a mixture those of one version up to some line and of another one behind it.
Lines(f) ==
  LET first(v, k) == Range(SubSeq(Mapping[v], 1, k))
      rest(v, k) == Range(SubSeq(Mapping[v], k + 1, Len(Mapping[v])))
      lengths(v) == 0..Len(Mapping[v])
  IN  IF f.ver = "mixed"
      THEN UNION {{first(v, k) \cup rest(w, k) : k \in lengths(v)} : v, w \in Versions}
      ELSE IF f.full THEN {Range(Mapping[f.ver])}
      ELSE {first(f.ver, k) : k \in lengths(f.ver)}
loadMappings(r) ==
  /\ gen[r].pc = "map read"
  /\ LET f == cache["server.txt"] IN
     \E lines \in Lines(f) :
       IF protocolPackets(lines) = {} THEN Leave(r, "fallback")
       ELSE gen' = [gen EXCEPT ![r].names = protocolPackets(lines), ![r].from = f.ver,
                               ![r].whole = f.full, ![r].pc = "jar"]
  /\ UNCHANGED <<cache, outputs>>

Generate(r, from, defs) ==
  /\ Leave(r, "done")
  /\ outputs' = outputs \cup {[ver |-> gen[r].ver, from |-> from,
                                     whole |-> gen[r].whole, defs |-> defs]}
  /\ UNCHANGED cache
\* A JAR has its directory at its end: one that is not complete cannot be opened.
readJar(r) ==
  /\ gen[r].pc = "jar read"
  /\ LET f == cache[File(r)] IN
     \E defs \in IF f.full /\ f.ver # "mixed" THEN extractPacketIDs(gen[r].names, Jar[f.ver])
                 ELSE {{}} :
       IF defs = {} THEN Leave(r, "fallback") /\ UNCHANGED <<cache, outputs>>
       ELSE Generate(r, gen[r].from, defs)
fallbackDefinitions(r) == gen[r].pc = "fallback" /\ Generate(r, "fallback", {})

GenNext ==
  \E r \in Runs :
    \/ fetchManifest(r) \/ RequestFails(r) \/ Kill(r) \/ downloadFile(r)
    \/ loadMappings(r) \/ readJar(r) \/ fallbackDefinitions(r)

GenSpec == GenInit /\ [][GenNext]_GenVars
-----------------------------------------------------------------------------
\* The packets of a version, with every ID that a class of that name may have.
Reference(v) ==
  {d \in {[key |-> p.key, id |-> Min({256} \cup (Jar[v][p.obf] \cap Nat))] :
            p \in {q \in protocolPackets(Range(Mapping[v])) : q.obf \in DOMAIN Jar[v]}} : d.id < 256}

\* What is generated from the mappings of its own version is right whatever was
\* killed, failed or overlapped before: a constant has the ID of a class of that
\* version with its name, only one although classes of several packages are put
\* into the same state, and if the mappings were complete no packet of the JAR is
\* missing (jar.go:81-153, 202-207, 238-306, extract.go:10-102).
GeneratedRight ==
  \A o \in outputs : o.from = o.ver =>
    /\ o.defs \subseteq Reference(o.ver)
    /\ \A d, e \in o.defs : d.key = e.key => d = e
    /\ o.whole => {d.key : d \in o.defs} = {d.key : d \in Reference(o.ver)}
=============================================================================
