----------------------------- MODULE MCMapProof -----------------------------
(* Documents for TLC to verify, and the maps they are about.                *)
EXTENDS LightClient, FiniteSets, SequencesExt

CONSTANTS a, b, junk, garbage

\* The paths that begin with p, in the order of a proof.
RECURSIVE Ordered(_)
Ordered(p) ==
  <<p>> \o IF Len(p) = Width THEN <<>> ELSE Ordered(Append(p, 0)) \o Ordered(Append(p, 1))

AllPaths == Tail(Ordered(<<>>))

\* Every array that has, for some of the slots, one of the elements for the slot.
Fillings(slots) ==
  FoldLeft(LAMBDA docs, slot : docs \cup {Append(d, x) : d \in docs, x \in slot},
           {<<>>}, slots)

Node(p, h) == [path |-> p, hash |-> h]
Shown(k, v) == [missing |-> none, key |-> k, value |-> v]
Missing(k) == [missing |-> k, key |-> none, value |-> none]

Scenario(m, ps, es) == [map |-> m, proofs |-> ps, entries |-> es]
NoMap == <<>>

-----------------------------------------------------------------------------
\* Keys are numbered; the third and the fourth have the same path, and the last
\* two are names of tables.
MCKeys == 1..6
MCPathOf == <<<<0, 0, 0>>, <<0, 1, 0>>, <<1, 1, 0>>, <<1, 1, 0>>, <<0, 1, 1>>, <<1, 0, 0>>>>

\* The nodes at some of the paths, each with a hash of its own.
NodesAt(ps) == Fillings([i \in DOMAIN ps |-> {Node(ps[i], <<9, ps[i]>>)}])

EntriesOf(ks, vs) ==
  Fillings([i \in DOMAIN ks |-> {Missing(ks[i])} \cup {Shown(ks[i], v) : v \in vs}])

\* Every set of paths without entries, and every set of the shorter paths and
\* two of the keys' with entries for some of the keys.
ShortPaths == SelectSeq(AllPaths, LAMBDA p : Len(p) < Width \/ p \in {<<0, 0, 1>>, <<0, 1, 0>>})
ShapeScenarios == {Scenario(NoMap, NodesAt(AllPaths), {<<>>}),
                   Scenario(NoMap, NodesAt(ShortPaths), EntriesOf(<<3, 1, 4, 2>>, {a}))}

\* Arrays that are out of order or repeat an element, and malformed elements.
Arrangements(s) == {Reverse(s), s \o s} \cup {Append(s, s[i]) : i \in DOMAIN s}
FewPaths == SelectSeq(AllPaths, LAMBDA p : p[1] = 0)
Odd == {[missing |-> x, key |-> k, value |-> v] :
          x \in {none, 1}, k \in {none, 2}, v \in {none, a}}
MalformedScenarios ==
  {Scenario(NoMap, UNION {Arrangements(d) : d \in NodesAt(FewPaths)}, {<<>>, <<Missing(1)>>}),
   Scenario(NoMap, {<<Node(p, h)>> : p \in {<<>>, <<1>>, <<1, 0, 1, 0>>}, h \in {junk, garbage}},
            {<<>>, <<Shown(1, a)>>}),
   Scenario(NoMap, {<<>>, <<Node(<<1>>, junk)>>}, [1..2 -> Odd])}

-----------------------------------------------------------------------------
\* Some of the paths of the tree of a map that has the keys 1, 2 and 3.
SoundPaths == <<<<0>>, <<0, 0, 0>>, <<0, 1>>, <<0, 1, 0>>, <<1>>, <<1, 1, 0>>>>

\* The path with its second bit flipped, or the only one.
Sibling(p) == [p EXCEPT ![Min({2, Len(p)})] = 1 - @]

\* Proofs in which every node has its hash in the map's tree, that of its
\* sibling, or that of no map.
Mixed(m) ==
  {d \in Fillings([i \in DOMAIN SoundPaths |->
             LET p == SoundPaths[i]
             IN {Node(p, h) : h \in HashAt(m, p) \cup HashAt(m, Sibling(p)) \cup {junk}}]) :
     \A i, j \in DOMAIN d : i # j => ~PrefixOf(d[i].path, d[j].path)}

\* All maps over three keys, and all claims about these.
SoundScenarios == {Scenario(m, Mixed(m), EntriesOf(<<1, 2, 3>>, {a, b})) :
                     m \in UNION {[K -> {a, b}] : K \in SUBSET {1, 2, 3}}}

-----------------------------------------------------------------------------
\* Two heights with two tables: an entry is changed in one table and another
\* entry comes to the other, which is now what the first one was.
MCChain == << (5 :> (1 :> a @@ 2 :> b)) @@ (6 :> (1 :> b)),
              (5 :> (1 :> b @@ 2 :> b)) @@ (6 :> (1 :> a @@ 2 :> b)) >>

DataMaps == UNION {{MCChain[h][t] : t \in DOMAIN MCChain[h]} : h \in DOMAIN MCChain}
TableRoots == {RootHash(m) : m \in DataMaps}
MCValues == {a, b} \cup TableRoots

\* Answers with any mixture of the tables of both heights, and of their entries.
Documents(paths, hashes, ks, vs) ==
  [proof : {d \in Fillings([i \in DOMAIN paths |-> {Node(paths[i], h) : h \in hashes}]) :
              \A i, j \in DOMAIN d : i # j => ~PrefixOf(d[i].path, d[j].path)},
   entries : EntriesOf(ks, vs)]

MCTableDocs ==
  Documents(<<MCPathOf[5], MCPathOf[6]>>, {Blob(r) : r \in TableRoots}, <<5, 6>>, TableRoots)
MCDataDocs ==
  Documents(<<<<0>>, MCPathOf[1], MCPathOf[2]>>,
            UNION {{x.hash : x \in UNION {Tree(Leaves(m))[p] : p \in PathsUpTo(Width)}} :
                     m \in DataMaps},
            <<1, 2>>, {a, b})

MCDocuments == ShapeScenarios \cup MalformedScenarios \cup SoundScenarios
=============================================================================
