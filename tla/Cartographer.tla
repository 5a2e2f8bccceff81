--------------------------- MODULE Cartographer ---------------------------
(***************************************************************************)
(* The map of a repository: which files are modules, what they import, and *)
(* how many hops a request is from each (core/cartography/mapper.py).      *)
(*                                                                         *)
(* A repository is the sequence of its files in the order of their paths.  *)
(* A path is the sequence of its segments, the last one the stem; what a   *)
(* parser finds in a file is in its fields:                                *)
(*   dotted     the absolute names it imports, as sequences of segments    *)
(*   beside     its path-relative specifiers: levels up, then segments     *)
(*   quoted     the dotted names in its strings that may be imports        *)
(*   signals    its source signals, "entrypoint" among them                *)
(***************************************************************************)
EXTENDS Integers, Sequences, FiniteSets, SequencesExt, FiniteSetsExt

CONSTANTS
    Nowhere,          \* no module: what a name that resolves to nothing gives
    ExcludedDirs,     \* EXCLUDED_DIRS and every directory with a leading dot
    EggDirs, GeneratedDirs, FixtureDirs, TestDirs,
    Supported,        \* EXTENSIONS, the suffixes some adapter parses
    ScriptSuffixes    \* SCRIPT_SUFFIXES, in the order a resolver tries them

Directory(file) == Front(file.path)
Package == "__init__"
IsPackage(file) == Last(file.path) = Package /\ file.ext = "py"

-----------------------------------------------------------------------------
(* The walk. *)

\* looks_like_a_test: a directory of tests above it, or the name of one.
LooksLikeATest(file) ==
    file.test \/ \E i \in DOMAIN Directory(file) : file.path[i] \in TestDirs

\* The category a directory gives to everything under it.
CategoryOf(part) ==
    IF part \in EggDirs THEN "egg-info"
    ELSE IF part \in GeneratedDirs THEN "generated"
    ELSE IF part \in FixtureDirs THEN "fixtures"
    ELSE part

\* _not_source: directories outermost first, then the name. Nowhere: a source.
NotSource(file) ==
    LET telling == {i \in DOMAIN Directory(file) :
                       file.path[i] \in ExcludedDirs \cup EggDirs \cup GeneratedDirs \cup FixtureDirs}
    IN  IF telling # {} THEN CategoryOf(file.path[Min(telling)])
        ELSE IF file.machine # Nowhere THEN file.machine
        ELSE IF file.ext \notin Supported THEN "unsupported"
        ELSE Nowhere

InScope(path, scope) == scope = {} \/ \E part \in scope : IsPrefix(part, path)

\* _walk: why a file stays out of the map; a secret is one wherever it sits.
LeftOut(file, scope) ==
    IF file.secret THEN "secrets"
    ELSE IF ~InScope(file.path, scope) THEN "out_of_scope"
    ELSE NotSource(file)

Sources(tree, scope) == SelectSeq(tree, LAMBDA file : LeftOut(file, scope) = Nowhere)

\* The tally of what was left behind, by category.
Excluded(tree, scope) ==
    LET category(i) == LeftOut(tree[i], scope)
        left == {i \in DOMAIN tree : category(i) # Nowhere}
    IN  [c \in {category(i) : i \in left} |-> Cardinality({i \in left : category(i) = c})]

-----------------------------------------------------------------------------
(* The index of names. *)

\* _package_root: the deepest directory above the file that is no package.
\* (The root of a repository is taken not to be one.)
PackageRoot(file, tree) ==
    LET plain(n) == \A i \in DOMAIN tree :
                       ~(IsPackage(tree[i]) /\ Directory(tree[i]) = SubSeq(file.path, 1, n))
    IN  Max({0} \cup {n \in 0..Len(Directory(file)) : plain(n)})

\* _dotted: the name below a base, a package named by its directory.
Dotted(file, base) ==
    LET parts == SubSeq(file.path, base + 1, Len(file.path))
    IN  IF parts # <<>> /\ Last(parts) = Package THEN Front(parts) ELSE parts

\* _names_for: from the root, from the package root, and every suffix of two
\* segments or more between them.
NamesFor(file, tree) ==
    LET full == {Dotted(file, 0), Dotted(file, PackageRoot(file, tree))} \ {<<>>}
        suffixes(name) == {SubSeq(name, s, Len(name)) : s \in 2..(Len(name) - 1)}
    IN  full \cup UNION {suffixes(name) : name \in full}

\* _index: the first file of a name keeps it, and a package takes it.
Index(sources, tree) ==
    LET names == [i \in DOMAIN sources |->
                     IF sources[i].ext = "py" THEN NamesFor(sources[i], tree) ELSE {}]
        bearers(name) == {i \in DOMAIN sources : name \in names[i]}
        packages(name) == {i \in bearers(name) : IsPackage(sources[i])}
    IN  [name \in UNION {names[i] : i \in DOMAIN sources} |->
            IF packages(name) # {} THEN Max(packages(name)) ELSE Min(bearers(name))]

-----------------------------------------------------------------------------
(* Imports. The targets are positions in `sources`. *)

\* _resolve: the longest prefix of the name that the index holds.
Resolve(name, index) ==
    LET known == {n \in 1..Len(name) : SubSeq(name, 1, n) \in DOMAIN index}
    IN  IF known = {} THEN Nowhere ELSE index[SubSeq(name, 1, Max(known))]

\* A specifier that leads to the root or above it has no relative path there.
Escapes(file, specifier) ==
    \/ specifier.up > Len(Directory(file))
    \/ specifier.up = Len(Directory(file)) /\ specifier.to = <<>>

\* _resolve_beside: the file of that stem, else the index file inside it, by
\* the first suffix that exists.
ResolveBeside(file, specifier, sources) ==
    LET dir == Directory(file)
        stem == SubSeq(dir, 1, Len(dir) - specifier.up) \o specifier.to
        at(path, ext) == {i \in DOMAIN sources : sources[i].path = path /\ sources[i].ext = ext}
        tried == [k \in 1..(2 * Len(ScriptSuffixes)) |->
                     IF k <= Len(ScriptSuffixes) THEN at(stem, ScriptSuffixes[k])
                     ELSE at(Append(stem, "index"), ScriptSuffixes[k - Len(ScriptSuffixes)])]
        hits == {k \in DOMAIN tried : tried[k] # {}}
    IN  IF hits = {} THEN Nowhere ELSE CHOOSE i \in tried[Min(hits)] : TRUE

\* What a module imports: names by their longest prefix, specifiers beside
\* it, strings only when they name a module exactly; never itself.
Imports(i, sources, index) ==
    LET file == sources[i]
        found == {Resolve(name, index) : name \in file.dotted}
                 \cup {ResolveBeside(file, s, sources) : s \in file.beside}
                 \cup {index[name] : name \in file.quoted \cap DOMAIN index}
    IN  found \ {Nowhere, i}

\* _refuse, after the tests are set aside: why a source is named and not read.
Skipped(file, include_tests) ==
    \/ LooksLikeATest(file) /\ ~include_tests
    \/ file.link
    \/ file.big

-----------------------------------------------------------------------------
(* The map. *)

\* One level of the walk of _with_depth.
Deeper(modules, imports, walk) ==
    LET next == (modules \cap UNION {imports[i] : i \in walk.frontier}) \ DOMAIN walk.depth
    IN  [frontier |-> next,
         depth |-> [i \in DOMAIN walk.depth \cup next |->
                       IF i \in next THEN walk.level + 1 ELSE walk.depth[i]],
         level |-> walk.level + 1]

\* The walk as a bug would have it: it stops at the modules entrypoints import.
OneHop(modules, imports, walk) ==
    IF walk.level = 0 THEN Deeper(modules, imports, walk) ELSE walk

Level(modules, imports, walk) == Deeper(modules, imports, walk)

\* _with_depth: hops from the entrypoints the code shows or the services name.
Depths(modules, imports, sources, declared) ==
    LET entrypoints == {i \in modules : \/ "entrypoint" \in sources[i].signals
                                        \/ sources[i].path \in declared}
        start == [frontier |-> entrypoints, depth |-> [i \in entrypoints |-> 0], level |-> 0]
    IN  FoldFunction(LAMBDA step, walk : Level(modules, imports, walk), start,
                     [step \in modules |-> step]).depth

\* Whether the map comes out at all: a scope that matches nothing is refused,
\* and a specifier that leads outside raises from within the map.
Maps(tree, scope, include_tests) ==
    LET sources == Sources(tree, scope)
        read == {i \in DOMAIN sources : ~Skipped(sources[i], include_tests) /\ ~sources[i].broken}
    IN  /\ scope # {} => sources # <<>>
        /\ \A i \in read : \A s \in sources[i].beside : ~Escapes(sources[i], s)

\* Cartographer.map.
RepoMap(tree, scope, declared, include_tests) ==
    LET sources == Sources(tree, scope)
        read == {i \in DOMAIN sources : ~Skipped(sources[i], include_tests)}
        modules == {i \in read : ~sources[i].broken}
        index == Index(sources, tree)
        imports == [i \in modules |-> Imports(i, sources, index)]
        depth == Depths(modules, imports, sources, declared)
    IN  [sources |-> sources,
         modules |-> modules,
         imports |-> imports,
         depth |-> depth,
         fan_in |-> [i \in modules |-> Cardinality({j \in modules : i \in imports[j]})],
         external |-> [i \in modules |-> {n \in sources[i].dotted : Resolve(n, index) = Nowhere}],
         unreachable |-> IF DOMAIN depth = {} THEN {} ELSE modules \ DOMAIN depth,
         skipped |-> DOMAIN sources \ read,
         unparsed |-> read \ modules,
         excluded |-> Excluded(tree, scope)]
=============================================================================
