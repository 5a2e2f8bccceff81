---------------------------- MODULE Architecture ----------------------------
(***************************************************************************)
(* The diagram of a service (core/architecture.py): a node for each service*)
(* of the deployment, each package of the map and each backing store, and  *)
(* an edge where a request or an import goes from one to another.          *)
(***************************************************************************)
EXTENDS Cartographer, Survey

CONSTANTS
    MostGroups,    \* MOST_GROUPS
    ClientsOf,     \* _CLIENTS: [store -> the names a client of it is imported by]
    StartsWith     \* pairs of segments of which the second begins with the first

Node(kind, key, modules, findings, depth) ==
    [kind |-> kind, key |-> key, modules |-> modules, findings |-> findings, depth |-> depth]

\* The package a module belongs to: two segments of its path at most.
GroupOf(path) == SubSeq(path, 1, Min({2, Max({Len(path) - 1, 1})}))

\* A group of modules as a node; depth is one more than its shallowest module.
GroupNode(map, counted, key) ==
    LET held == {i \in map.modules : GroupOf(map.sources[i].path) = key}
        near == {map.depth[i] + 1 : i \in held \cap DOMAIN map.depth}
    IN  Node("code", key, Cardinality(held), FoldSet(LAMBDA i, n : n + counted[i], 0, held),
             IF near = {} THEN Nowhere ELSE Min(near))

\* _groups: the fullest of findings, then of modules, and only so many.
Groups(map, counted) ==
    LET keys == {GroupOf(map.sources[i].path) : i \in map.modules}
        nodes == {GroupNode(map, counted, key) : key \in keys}
        sorted == SetToSortSeq(nodes, LAMBDA a, b :
                     a.findings > b.findings \/ (a.findings = b.findings /\ a.modules > b.modules))
    IN  SubSeq(sorted, 1, Min({MostGroups, Len(sorted)}))

\* A path, as text, begins with a package's: its last segment may only begin alike.
Under(path, key) ==
    /\ Len(path) >= Len(key) /\ IsPrefix(Front(key), path)
    /\ path[Len(key)] = Last(key) \/ << Last(key), path[Len(key)] >> \in StartsWith

\* _touches: a module under the package's name imports a client of the store.
Touches(map, group, store) ==
    \E i \in map.modules : /\ Under(map.sources[i].path, group.key)
                           /\ \E name \in map.external[i] : Head(name) \in ClientsOf[store]

\* The groups a request is drawn to: the shallowest four, those with no depth last.
Shallowest(groups) ==
    LET far(g) == IF g.depth = Nowhere THEN 99 ELSE g.depth
        sorted == SortSeq(groups, LAMBDA a, b :
                     far(a) < far(b) \/ (far(a) = far(b) /\ a.modules > b.modules))
    IN  SubSeq(sorted, 1, Min({4, Len(sorted)}))

\* architecture: the services that take traffic, or all of them.
Drawn(compose, map, counted) ==
    LET services == Services(compose)
        serving == SelectSeq(services, LAMBDA s : s.ports)
        taking == IF serving = <<>> THEN services ELSE serving
        groups == Groups(map, counted)
        backing == {s.name : s \in ToSet(Backing(compose))}
    IN  [nodes |-> {Node("service", <<s.name>>, 0, 0, 0) : s \in ToSet(services)}
                   \cup {Node("store", <<store>>, 0, 0, 3) : store \in backing}
                   \cup ToSet(groups),
         edges |-> {<<<<s.name>>, g.key>> : s \in ToSet(SubSeq(taking, 1, Min({2, Len(taking)}))),
                                        g \in ToSet(Shallowest(groups))}
                   \cup UNION {{<<g.key, <<store>>>> : store \in {b \in backing : Touches(map, g, b)}} :
                                  g \in ToSet(groups)}]
=============================================================================
