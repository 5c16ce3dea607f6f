---------------------------- MODULE CatalogCache ----------------------------
(***************************************************************************)
(* Listing the tables of a file, with the opt-in sidecar cache, in several *)
(* threads or worker processes and while other programs write the files.   *)
(*                                                                         *)
(* A catalog is tied to its source by path, size and modification time     *)
(* (together: the stamp).  list_rds_tables loads the sidecar and checks it *)
(* against the file; on a miss it takes the stamp, scans the file, takes   *)
(* the stamp again, and saves the catalog through a temporary file.  The   *)
(* caller may then convert tables of the file, selected in the catalog.    *)
(*                                                                         *)
(* The text of a file is two halves, each the number of the write that it  *)
(* comes from: a program may put a new file in its place or rewrite it in  *)
(* place, half by half.  What a scan sees is up to the inode it has open.  *)
(***************************************************************************)
EXTENDS Integers, Sequences

CONSTANTS
  Callers,    \* threads and worker processes, one call each
  Sources,    \* files
  Sidecars,   \* cache files
  SidecarOf,  \* _catalog_cache_path: the cache file of a source
  Codecs,     \* values of the encoding parameter
  MaxChanges, \* bound: how often other programs write
  None,       \* no value
  Partial     \* a cache or temporary file that is not a whole catalog

ASSUME CacheAssumption ==
  /\ SidecarOf \in [Sources -> Sidecars]
  /\ MaxChanges \in Nat
  /\ None \notin Sources

VARIABLES
  clock,   \* external: writes so far
  stamp,   \* external: size and modification time of each file
  inode,   \* external: the texts of the inodes a file has had, in order
  rewrite, \* external: the files whose tail is still to be rewritten
  past,    \* external: what every file has been
  sidecar, \* the cache files
  temp,    \* the temporary file of each caller
  call     \* the calls in progress

vars == <<clock, stamp, inode, rewrite, past, sidecar, temp, call>>
outside == <<clock, stamp, inode, rewrite, past>>

-----------------------------------------------------------------------------
(* Other programs. *)

Current(s) == inode[s][Len(inode[s])]

Was(s, t, text) == [path |-> s, stamp |-> t, text |-> text]

\* Every write gives the file a stamp that it never had.
Written(s) ==
  /\ clock < MaxChanges
  /\ clock' = clock + 1
  /\ stamp' = [stamp EXCEPT ![s] = clock + 1]
  /\ past' = past \cup {Was(s, clock + 1, Current(s)')}
  /\ UNCHANGED <<sidecar, temp, call>>

Replace(s) ==
  /\ s \notin rewrite
  /\ inode' = [inode EXCEPT ![s] = Append(@, [head |-> clock + 1, tail |-> clock + 1])]
  /\ UNCHANGED rewrite
  /\ Written(s)

RewriteHead(s) ==
  /\ s \notin rewrite
  /\ inode' = [inode EXCEPT ![s][Len(inode[s])].head = clock + 1]
  /\ rewrite' = rewrite \cup {s}
  /\ Written(s)

RewriteTail(s) ==
  /\ s \in rewrite
  /\ inode' = [inode EXCEPT ![s][Len(inode[s])].tail = Current(s).head]
  /\ rewrite' = rewrite \ {s}
  /\ Written(s)

-----------------------------------------------------------------------------
(* RDSCatalog. *)

\* schema: the sidecar has the schemas that version 1 of its format had not.
RDSCatalog(s, t, magic, text, codec, schema) ==
  [path |-> s, stamp |-> t, magic |-> magic, text |-> text, codec |-> codec,
   schema |-> schema]

Whole(content) == content \notin {None, Partial}

\* Mutant of matches: the path is not compared.
matches_any_path(cat, s) == cat.stamp = stamp[s]

matches(cat, s) == cat.path = s /\ cat.stamp = stamp[s]

-----------------------------------------------------------------------------
(* list_rds_tables, step by step. *)

Idle == [pc |-> "idle", src |-> None, codec |-> None, cache |-> FALSE, held |-> None,
         before |-> 0, magic |-> 0, fd |-> 0, head |-> 0, text |-> None,
         cat |-> None, checked |-> FALSE, out |-> None]

At(p, pc) == call[p].pc = pc

Do(p, changed) == call' = [call EXCEPT ![p] = changed]

Goes(p, pc) == Do(p, [call[p] EXCEPT !.pc = pc])

\* list_rds_tables is left, and its variables with it.
Leaves(p, pc, cat) ==
  Do(p, [Idle EXCEPT !.pc = pc, !.src = call[p].src, !.codec = call[p].codec, !.cat = cat])

Begin(p, s, codec, cache) ==
  /\ At(p, "idle")
  /\ Do(p, [Idle EXCEPT !.pc = IF cache THEN "lookup" ELSE "stat",
                        !.src = s, !.codec = codec, !.cache = cache])
  /\ UNCHANGED <<outside, sidecar, temp>>

\* RDSCatalog.load: a partial or corrupt sidecar is only a cache miss.
Lookup(p) ==
  /\ At(p, "lookup")
  /\ LET content == sidecar[SidecarOf[call[p].src]]
     IN IF Whole(content)
        THEN Do(p, [call[p] EXCEPT !.pc = "match", !.held = content])
        ELSE Goes(p, "stat")
  /\ UNCHANGED <<outside, sidecar, temp>>

Match(p) ==
  /\ At(p, "match")
  /\ IF matches(call[p].held, call[p].src) /\ call[p].held.schema
     THEN Leaves(p, "done", call[p].held)
     ELSE Do(p, [call[p] EXCEPT !.pc = "stat", !.held = None])
  /\ UNCHANGED <<outside, sidecar, temp>>

Stat(p) ==
  /\ At(p, "stat")
  /\ Do(p, [call[p] EXCEPT !.pc = "inspect", !.before = stamp[call[p].src]])
  /\ UNCHANGED <<outside, sidecar, temp>>

\* inspect_r_file opens the file for itself: the magic number.
Inspect(p) ==
  /\ At(p, "inspect")
  /\ Do(p, [call[p] EXCEPT !.pc = "scan", !.magic = Current(call[p].src).head])
  /\ UNCHANGED <<outside, sidecar, temp>>

\* The scan opens the file and reads on while others may write.
Scan(p) ==
  /\ At(p, "scan")
  /\ Do(p, [call[p] EXCEPT !.pc = "scanning", !.fd = Len(inode[call[p].src]),
                           !.head = Current(call[p].src).head])
  /\ UNCHANGED <<outside, sidecar, temp>>

Scanned(p) ==
  /\ At(p, "scanning")
  /\ Do(p, [call[p] EXCEPT !.pc = "restat",
              !.text = [head |-> call[p].head,
                        tail |-> inode[call[p].src][call[p].fd].tail]])
  /\ UNCHANGED <<outside, sidecar, temp>>

\* The file cannot be opened, or what is read of it is no catalogued root.
Unreadable(p) ==
  /\ call[p].pc \in {"stat", "inspect", "scan", "scanning"}
  /\ Leaves(p, "failed", None)
  /\ UNCHANGED <<outside, sidecar, temp>>

Catalogued(p) ==
  Leaves(p, IF call[p].cache THEN "mkstemp" ELSE "done",
         RDSCatalog(call[p].src, call[p].before, call[p].magic,
                    call[p].text, call[p].codec, TRUE))

\* Mutant of Restat: the file is taken not to have changed.
Restat_trusting(p) ==
  /\ At(p, "restat")
  /\ Catalogued(p)
  /\ UNCHANGED <<outside, sidecar, temp>>

Restat(p) ==
  /\ At(p, "restat")
  /\ IF stamp[call[p].src] = call[p].before THEN Catalogued(p)
     ELSE Leaves(p, "failed", None)
  /\ UNCHANGED <<outside, sidecar, temp>>

-----------------------------------------------------------------------------
(* RDSCatalog.save. *)

\* Mutant of Mkstemp: the sidecar itself is opened for writing.
Mkstemp_target(p) ==
  /\ At(p, "mkstemp")
  /\ Goes(p, "dump")
  /\ sidecar' = [sidecar EXCEPT ![SidecarOf[call[p].src]] = Partial]
  /\ temp' = [temp EXCEPT ![p] = Partial]
  /\ UNCHANGED outside

Mkstemp(p) ==
  /\ At(p, "mkstemp")
  /\ Goes(p, "dump")
  /\ temp' = [temp EXCEPT ![p] = Partial]
  /\ UNCHANGED <<outside, sidecar>>

Dump(p) ==
  /\ At(p, "dump")
  /\ Goes(p, "replace")
  /\ temp' = [temp EXCEPT ![p] = call[p].cat]
  /\ UNCHANGED <<outside, sidecar>>

OsReplace(p) ==
  /\ At(p, "replace")
  /\ Goes(p, "done")
  /\ sidecar' = [sidecar EXCEPT ![SidecarOf[call[p].src]] = temp[p]]
  /\ temp' = [temp EXCEPT ![p] = None]
  /\ UNCHANGED outside

\* Mutant of SaveFails: the temporary file stays.
SaveFails_littering(p) ==
  /\ call[p].pc \in {"mkstemp", "dump", "replace"}
  /\ Goes(p, "failed")
  /\ UNCHANGED <<outside, sidecar, temp>>

\* Any step of the save may raise: the temporary file is unlinked, the
\* catalog that was found is not returned.
SaveFails(p) ==
  /\ call[p].pc \in {"mkstemp", "dump", "replace"}
  /\ Goes(p, "failed")
  /\ temp' = [temp EXCEPT ![p] = None]
  /\ UNCHANGED <<outside, sidecar>>

-----------------------------------------------------------------------------
(* to_parquet and extract_rds_tables: the selection, then the conversion. *)

\* An explicit catalog is checked; one made for a selection by name is not.
Select(p, explicit) ==
  /\ At(p, "done")
  /\ IF explicit => matches(call[p].cat, call[p].src)
     THEN Do(p, [call[p] EXCEPT !.pc = "convert", !.checked = explicit])
     ELSE Goes(p, "failed")
  /\ UNCHANGED <<outside, sidecar, temp>>

\* The file is opened, and the tables selected are taken by their indices.
Convert(p) ==
  /\ At(p, "convert")
  /\ Do(p, [call[p] EXCEPT !.pc = "converted", !.out = Current(call[p].src)])
  /\ UNCHANGED <<outside, sidecar, temp>>

Ended == {"idle", "failed", "converted", "dead"}

\* The process dies: its temporary file stays.
Crash(p) ==
  /\ call[p].pc \notin Ended
  /\ Leaves(p, "dead", call[p].cat)
  /\ UNCHANGED <<outside, sidecar, temp>>

-----------------------------------------------------------------------------
Unsaved(s, codec) == RDSCatalog(s, 0, 0, [head |-> 0, tail |-> 0], codec, FALSE)

Init ==
  /\ clock = 0
  /\ stamp = [s \in Sources |-> 0]
  /\ inode = [s \in Sources |-> <<[head |-> 0, tail |-> 0]>>]
  /\ rewrite = {}
  /\ past = {Was(s, 0, [head |-> 0, tail |-> 0]) : s \in Sources}
  /\ sidecar \in [Sidecars -> {None, Partial} \cup {Unsaved(s, c) : s \in Sources, c \in Codecs}]
  /\ temp = [p \in Callers |-> None]
  /\ call = [p \in Callers |-> Idle]

List(p) ==
  \/ \E s \in Sources, codec \in Codecs, cache \in BOOLEAN : Begin(p, s, codec, cache)
  \/ Lookup(p) \/ Match(p)
  \/ Stat(p) \/ Inspect(p) \/ Scan(p) \/ Scanned(p) \/ Unreadable(p) \/ Restat(p)
  \/ Mkstemp(p) \/ Dump(p) \/ OsReplace(p) \/ SaveFails(p)
  \/ \E explicit \in BOOLEAN : Select(p, explicit)
  \/ Convert(p)
  \/ Crash(p)

Next ==
  \/ \E p \in Callers : List(p)
  \/ \E s \in Sources : Replace(s) \/ RewriteHead(s) \/ RewriteTail(s)

Spec == Init /\ [][Next]_vars

-----------------------------------------------------------------------------
(* Properties. *)

Texts    == [head : 0 .. MaxChanges, tail : 0 .. MaxChanges]
Catalogs == [path : Sources, stamp : 0 .. MaxChanges, magic : 0 .. MaxChanges,
             text : Texts, codec : Codecs, schema : BOOLEAN]

\* No value, and a file that is not a whole catalog, can be told from a catalog.
ASSUME ContentAssumption == None \notin Catalogs /\ Partial \notin Catalogs /\ None # Partial

Steps == {"lookup", "match", "stat", "inspect", "scan", "scanning", "restat", "mkstemp",
          "dump", "replace", "done", "convert"} \cup Ended

CallType ==
  [pc : Steps, src : Sources \cup {None}, codec : Codecs \cup {None}, cache : BOOLEAN,
   held : Catalogs \cup {None}, before : Nat, magic : Nat, fd : Nat, head : Nat,
   text : Texts \cup {None}, cat : Catalogs \cup {None},
   checked : BOOLEAN, out : Texts \cup {None}]

TypeOK ==
  /\ clock \in 0 .. MaxChanges
  /\ stamp \in [Sources -> 0 .. MaxChanges]
  /\ inode \in [Sources -> Seq(Texts) \ {<<>>}]
  /\ rewrite \subseteq Sources
  /\ past \subseteq [path : Sources, stamp : 0 .. MaxChanges, text : Texts]
  /\ sidecar \in [Sidecars -> Catalogs \cup {None, Partial}]
  /\ temp \in [Callers -> Catalogs \cup {None, Partial}]
  /\ call \in [Callers -> CallType]

\* A catalog shows one state of its file, the one that its stamp names, and
\* never a mixture of two.
True(cat) ==
  /\ Was(cat.path, cat.stamp, cat.text) \in past
  /\ cat.magic = cat.text.head

\* Whatever is served or left in a sidecar for later processes is true.
CatalogsTrue ==
  /\ \A p \in Callers : call[p].cat # None => True(call[p].cat)
  /\ \A c \in Sidecars : Whole(sidecar[c]) => True(sidecar[c])

\* A sidecar is replaced, never written to (api.py:195, "atomically persist"):
\* other processes, and those after a crash, find the old one or the new one.
SidecarsWhole ==
  [][\A c \in Sidecars : sidecar'[c] # sidecar[c] => Whole(sidecar'[c])]_vars

\* A save that fails leaves no temporary file: only a process that dies does.
NoLitter ==
  \A p \in Callers : call[p].pc \in {"failed", "done", "converted"} => temp[p] = None

\* A call is answered as if it looked at its file at one instant.
Listing == INSTANCE FileListing WITH
  now    <- [s \in Sources |-> [stamp |-> stamp[s], text |-> Current(s)]],
  asked  <- [p \in Callers |-> call[p].src],
  answer <- [p \in Callers |-> IF call[p].cat = None THEN None
                               ELSE Was(call[p].cat.path, call[p].cat.stamp, call[p].cat.text)]
AnswersAtOnce == Listing!Spec

\* README.md:650: encoding decides how names without an encoding flag are
\* decoded; a catalog served is one made with the encoding asked for.
EncodingHonoured ==
  \A p \in Callers : call[p].cat # None => call[p].cat.codec = call[p].codec

\* README.md:489: an explicit catalog that is stale raises RDSCatalogError
\* before conversion; what is converted is the file it describes.
StaleNotConverted ==
  \A p \in Callers :
    call[p].checked /\ call[p].out # None => call[p].out = call[p].cat.text
=============================================================================
