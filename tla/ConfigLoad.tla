--------------------------- MODULE ConfigLoad ---------------------------
(***************************************************************************)
(* Packages configload and configmerge: the configuration file is found,   *)
(* its includes are expanded depth first, and the documents are merged,    *)
(* includes in listed order and the including document last.               *)
(*                                                                         *)
(* A name is a path as written; Links takes it to the file it resolves to. *)
(* The disk maps a file to its size and to what its text is: a node, or    *)
(* one of the defects the parsers know.                                    *)
(***************************************************************************)
EXTENDS Configuration

CONSTANTS Loads,               \* the file systems loaded from, with the options of Load
          Links,               \* name to resolved file
          JSONNames,           \* the names with extension .json
          RemoteNames, AbsoluteNames,
          MaximumFileSize, MaximumIncludeDepth, MaximumTotalFiles, MaximumTotalBytes

VARIABLES disk, load

loadVars == <<disk, load>>
LoadIdle == [at |-> "idle"]

RECURSIVE Merge(_, _)

\* Merge's result for the operations section: the first definition of an ID stays
\* unless a later one says replace, and a later one that does not is reported.
isReplace(node) == Get(node, "replace") = Bool("true")
mergeOperations(base, override) ==
  LET old == IF IsMapping(base) THEN base.e ELSE <<>>
      new == IF IsMapping(override) THEN override.e ELSE <<>>
      both == DOMAIN old \intersect DOMAIN new
  IN [node |-> MapNode([k \in DOMAIN old \union DOMAIN new |->
                          IF k \notin DOMAIN new \/ (k \in both /\ ~isReplace(new[k])) THEN old[k] ELSE new[k]]),
      d |-> IF \E k \in both : ~isReplace(new[k]) THEN {"BWCFG019"} ELSE {}]

Merge(base, override) ==
  IF base = Nil THEN [node |-> override, d |-> {}]
  ELSE IF override = Nil THEN [node |-> base, d |-> {}]
  ELSE IF ~IsMapping(base) \/ ~IsMapping(override) THEN [node |-> override, d |-> {}]
  ELSE LET keys == DOMAIN base.e \union DOMAIN override.e
           at == [k \in keys |->
                    LET old == Get(base, k)  new == Get(override, k)
                    IN CASE new = Nil -> [node |-> old, d |-> {}]
                         [] new # Nil /\ k = "operations" -> mergeOperations(old, new)
                         [] IsMapping(new) /\ IsMapping(old) /\ k # "operations" -> Merge(old, new)
                         [] OTHER -> [node |-> new, d |-> {}]]
       IN [node |-> MapNode([k \in keys |-> at[k].node]), d |-> Problems(at)]

-------------------------------------------------------------------------
\* Finding and parsing files

\* Discover: the nearest directory with a configuration file, up to the stop.
Discover(dirs, stop) ==
  LET searched == {i \in DOMAIN dirs : stop = 0 \/ i <= stop}
      nonempty == {i \in searched : dirs[i] # {}}
      nearest == CHOOSE i \in nonempty : \A j \in nonempty : i <= j
  IN CASE nonempty = {} -> [ok |-> FALSE, name |-> "", d |-> {"BWCFG017"}]
       [] nonempty # {} /\ Cardinality(dirs[nearest]) > 1 -> [ok |-> FALSE, name |-> "", d |-> {"BWCFG018"}]
       [] OTHER -> [ok |-> TRUE, name |-> CHOOSE name \in dirs[nearest] : TRUE, d |-> {}]

ParseYAML(text) ==
  CASE text.defect = "none" -> [node |-> text.node, d |-> {}]
    [] text.defect = "empty" -> [node |-> Null, d |-> {}]
    [] text.defect = "syntax" -> [node |-> Nil, d |-> {"BWCFG001"}]
    [] text.defect = "duplicate key" -> [node |-> Nil, d |-> {"BWCFG002"}]
    [] text.defect = "more content" -> [node |-> Nil, d |-> {"BWCFG003"}]
    [] text.defect = "construct" -> [node |-> Nil, d |-> {"BWCFG009"}]

\* fail panics out of the parser; the recovered call returns zero values, so the
\* diagnostic that fail recorded is not among the results.
ParseJSON(text) ==
  CASE text.defect = "none" -> [node |-> text.node, d |-> {}]
    [] text.defect \in {"empty", "syntax", "construct"} -> [node |-> Nil, d |-> {}]
    [] text.defect = "duplicate key" -> [node |-> Nil, d |-> {"BWCFG002"}]
    [] text.defect = "more content" -> [node |-> Nil, d |-> {"BWCFG004"}]

parse(name, text) == IF name \in JSONNames THEN ParseJSON(text) ELSE ParseYAML(text)

\* The include entries that are strings, and the document without them.
extractIncludes(node) ==
  LET v == Get(node, "include")
      strings == IF IsSequence(v) THEN SelectSeq(v.elems, LAMBDA x : x.t = "string") ELSE <<>>
  IN [i \in DOMAIN strings |-> strings[i].s]
stripInclude(node) ==
  IF IsMapping(node) THEN MapNode([k \in DOMAIN node.e \ {"include"} |-> node.e[k]]) ELSE node

resolveInclude(name, allowAbsolute) ==
  CASE name \in RemoteNames -> {"BWCFG014"}
    [] name \in AbsoluteNames /\ ~allowAbsolute -> {"BWCFG013"}
    [] OTHER -> {}

\* What readFile refuses: a missing, too large or unreadable file, or too much in all.
readFile(name, bytes) ==
  LET file == Links[name]
  IN IF file \notin DOMAIN disk THEN {"BWCFG011"}
     ELSE IF disk[file].size > MaximumFileSize \/ bytes + disk[file].size > MaximumTotalBytes THEN {"BWCFG010"}
     ELSE IF ~disk[file].readable THEN {"BWCFG011"}
     ELSE {}

-------------------------------------------------------------------------
\* Load

onStack(l, file) == \E i \in DOMAIN l.stack : l.stack[i].file = file
alreadyLoaded(l, file) == file \in l.visited

\* Expanding a file that is refused, or was merged elsewhere, yields no node.
Refused(l, codes) == [l EXCEPT !.at = "next", !.ret = Nil, !.diags = @ \union codes]

\* The part of expand before its includes.
Opened(l, name) ==
  LET file == Links[name]
      text == disk[file]
      problem == readFile(name, l.bytes)
      parsed == parse(name, text)
      noted == [l EXCEPT !.at = "next", !.ret = Nil, !.diags = @ \union parsed.d, !.files = Append(@, name),
                         !.bytes = @ + text.size, !.visited = @ \union {file}]
  IN IF onStack(l, file) THEN Refused(l, {"BWCFG012"})
     ELSE IF alreadyLoaded(l, file) THEN Refused(l, {})
     ELSE IF Len(l.stack) >= MaximumIncludeDepth \/ Len(l.files) >= MaximumTotalFiles
          THEN Refused(l, {"BWCFG010"})
     ELSE IF problem # {} THEN Refused(l, problem)
     ELSE IF parsed.node = Nil THEN noted
     ELSE [noted EXCEPT !.stack = Append(@, [file |-> file, todo |-> extractIncludes(parsed.node),
                                             merged |-> Nil, body |-> stripInclude(parsed.node)])]

Expand ==
  /\ load.at = "call"
  /\ load' = IF load.canceled THEN [load EXCEPT !.at = "next", !.ret = Nil, !.fatal = TRUE]
             ELSE Opened(load, load.call)
  /\ UNCHANGED disk

\* What a returned call brings is merged into the file that included it.
Returned(l) ==
  LET top == Len(l.stack)
      m == Merge(l.stack[top].merged, l.ret)
  IN [l EXCEPT !.stack[top].merged = m.node, !.ret = Nil, !.diags = @ \union m.d]

NextInclude ==
  /\ load.at = "next" /\ load.stack # <<>>
  /\ LET l == Returned(load)
         top == Len(l.stack)
         name == Head(l.stack[top].todo)
         taken == [l EXCEPT !.stack[top].todo = Tail(@)]
         problem == resolveInclude(name, l.request.AllowAbsoluteInclude)
     IN /\ l.stack[top].todo # <<>>
        /\ load' = IF problem # {} THEN [taken EXCEPT !.diags = @ \union problem]
                   ELSE [taken EXCEPT !.at = "call", !.call = name]
  /\ UNCHANGED disk

\* Mutant: the includes override the including document.
BodyFirst(l) ==
  LET frame == l.stack[Len(l.stack)] IN Merge(frame.body, frame.merged)

\* The including document is applied last.
BodyLast(l) ==
  LET frame == l.stack[Len(l.stack)] IN Merge(frame.merged, frame.body)

ReturnMerged ==
  /\ load.at = "next" /\ load.stack # <<>>
  /\ load.stack[Len(load.stack)].todo = <<>>
  /\ LET l == Returned(load)  m == BodyLast(l)
     IN load' = [l EXCEPT !.stack = Front(@), !.ret = m.node, !.diags = @ \union m.d]
  /\ UNCHANGED disk

\* config.Load after the files are merged: normalize, validate, and digest what has no error.
Digested(l, config, diags) ==
  [l EXCEPT !.at = "done", !.diags = diags, !.config = config,
            !.digest = IF diags = {} THEN <<Digest(config)>> ELSE <<>>]
Validated(l, norm) == Digested(l, norm.config, l.diags \union norm.d \union validateSemantic(norm.config))
Normalize ==
  /\ load.at = "next" /\ load.stack = <<>>
  /\ load' = IF load.fatal \/ load.ret = Nil THEN [load EXCEPT !.at = "done"]
             ELSE Validated(load, normalize(load.ret))
  /\ UNCHANGED disk

StartLoad ==
  /\ load.at = "start"
  /\ LET q == load.request
         found == CASE q.Path # "" -> [ok |-> TRUE, name |-> q.Path, d |-> {}]
                    [] q.Path = "" /\ q.Discover -> Discover(q.dirs, q.stop)
                    [] OTHER -> [ok |-> FALSE, name |-> "", d |-> {"BWCFG017"}]
     IN load' = IF ~found.ok THEN [load EXCEPT !.at = "done", !.diags = found.d]
                ELSE IF Links[found.name] \notin DOMAIN disk
                     THEN [load EXCEPT !.at = "done", !.diags = {"BWCFG017"}]
                ELSE [load EXCEPT !.at = "call", !.call = found.name, !.Found = TRUE]
  /\ UNCHANGED disk

\* The context ends at any time.
CancelLoad ==
  /\ load.at \in {"start", "call", "next"} /\ ~load.canceled
  /\ load' = [load EXCEPT !.canceled = TRUE]
  /\ UNCHANGED disk

LoadInit ==
  \E l \in Loads :
    /\ disk = l.disk
    /\ load = [at |-> "start", request |-> l.request, canceled |-> FALSE, fatal |-> FALSE, Found |-> FALSE, call |-> "",
               ret |-> Nil, stack |-> <<>>, visited |-> {}, files |-> <<>>, bytes |-> 0, diags |-> {},
               config |-> ZeroConfig, digest |-> <<>>]
LoadNext == StartLoad \/ Expand \/ NextInclude \/ ReturnMerged \/ Normalize \/ CancelLoad

-------------------------------------------------------------------------
\* Properties

Loaded == {Links[name] : name \in Range(load.files)}
Document(file) == IF disk[file].defect = "none" THEN disk[file].node ELSE Nil
Included(file) ==
  {Links[name] : name \in {n \in Range(extractIncludes(Document(file))) :
                              resolveInclude(n, load.request.AllowAbsoluteInclude) = {}}} \intersect Loaded
\* The files that file includes, directly or through others.
Below(file) == FoldLeft(LAMBDA s, name : s \union UNION {Included(g) : g \in s}, Included(file), load.files)
Defines(file, id) == Get(Get(Document(file), "operations"), id) # Nil
Finished == load.at = "done" /\ load.Found /\ ~load.fatal
Clean == Finished /\ load.diags = {} /\ \A f \in Loaded : IsMapping(Document(f))

\* expand checks the stack before the set of loaded files, so a loop of includes is always
\* reported, and files that are only included twice never are: at the end of a load that hit
\* no limit, BWCFG012 is reported exactly when a loaded file includes itself through others.
CycleReported ==
  Finished /\ "BWCFG010" \notin load.diags =>
    ("BWCFG012" \in load.diags <=> \E f \in Loaded : f \in Below(f))

\* "Includes are applied first in listed order and the including file last": when a load
\* succeeds, the scope in effect is that of a file no other file that sets it includes.
\* A section that is null sets the default.
IncluderWins ==
  LET section(f) == Get(Document(f), "runtime")
      says(f) == IF section(f) = Null THEN Str("request") ELSE Get(section(f), "default_scope")
      setters == {f \in Loaded : says(f) # Nil}
  IN Clean /\ setters # {} =>
       \E w \in setters : /\ load.config.DefaultScope = says(w).s
                          /\ \A u \in setters \ {w} : w \notin Below(u)

\* A conflict is reported only between two files (a file reached twice is merged once), and
\* when none is reported an operation with two definitions is in effect by its replace.
ConflictsAreReal ==
  LET definers(id) == {f \in Loaded : Defines(f, id)}
      body(id) == Get(Get(load.ret, "operations"), id)
  IN Finished =>
       /\ "BWCFG019" \in load.diags => \E id \in DOMAIN IDs : Cardinality(definers(id)) > 1
       /\ Clean => \A id \in DOMAIN IDs : Cardinality(definers(id)) > 1 => isReplace(body(id))

\* What a load without diagnostics drops: no operation of any file is missing from the
\* catalog, every batch limit a document gives is the one in effect, and there is a digest.
NothingDropped ==
  Clean =>
    /\ load.digest # <<>>
    /\ \A f \in Loaded : \A id \in DOMAIN IDs :
         Defines(f, id) => \E s \in Range(load.config.Catalog) : s.id = IDs[id]
    /\ \A s \in Range(load.config.Catalog) : \A id \in DOMAIN IDs :
         LET size == Get(Get(Get(Get(load.ret, "operations"), id), "scheduler"), "max_size")
         IN IDs[id] = s.id /\ size.t = "int" => s.scheduler.MaxBatchSize = size.n

\* "YAML or JSON syntax error" is BWCFG001: a load that read a file with a syntax error
\* reports an error.
SyntaxErrorsReported ==
  Finished /\ (\E f \in Loaded : disk[f].defect = "syntax") => load.diags # {}
=========================================================================
