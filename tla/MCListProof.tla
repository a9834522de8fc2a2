----------------------------- MODULE MCListProof -----------------------------
(* Documents for TLC to verify, and the tree they are about.                *)
EXTENDS ListProof, FiniteSets, SequencesExt

CONSTANTS a, b, junk, garbage

MCPow2 == [k \in 0..MaxTreeHeight |-> 2^k]

Exists(n, h, i) == h <= HeightOf(n) /\ i * 2^(h - 1) < n

HonestHash(l, h, i) == IF Exists(Len(l), h, i) THEN TreeHash(l)[h][i] ELSE junk

\* The positions of a tree with n leaves in the order of a proof, `extra` more on
\* each level and as many levels above the root.
Slots(n, extra) ==
  FlattenSeq([h \in 1..(HeightOf(n) + extra) |->
    [k \in 1..(extra + IF Exists(n, h, 0) THEN (n - 1) \div 2^(h - 1) + 1 ELSE 0) |->
       <<h, k - 1>>]])

Indexes(n) == [k \in 1..n |-> k - 1]

\* Every array that has, for some of the slots, one of the elements for the slot.
RECURSIVE Fillings(_)
Fillings(slots) ==
  IF slots = <<>> THEN {<<>>}
  ELSE LET docs == Fillings(Front(slots))
       IN docs \cup {Append(d, x) : d \in docs, x \in Last(slots)}

\* The slots, each with the elements for it.
Offer(slots, choice(_)) == [k \in DOMAIN slots |-> choice(slots[k])]

Scenario(l, n, ps, es) == [list |-> l, length |-> n, proofs |-> ps, values |-> es]

\* A list of n values, no two equal.
Distinct(n) == [i \in 1..n |-> i]

\* Every set of positions, with the honest hash or value at each.
HonestScenario(n, extra) ==
  LET l == Distinct(n)
  IN Scenario(l, n,
       Fillings(Offer(Slots(n, extra), LAMBDA s :
         {[height |-> s[1], index |-> s[2], hash |-> HonestHash(l, s[1], s[2])]})),
       Fillings(Offer(Indexes(n + extra), LAMBDA i :
         {[index |-> i, value |-> IF i < n THEN l[i + 1] ELSE 1]})))

\* Arrays that are out of order, repeat an element or hold malformed elements.
Arrangements(s) == {Reverse(s), s \o s} \cup {<<s[i]>> \o s : i \in DOMAIN s}
BadNodes == {[height |-> h, index |-> 0, hash |-> g] :
               h \in {0, 1, MaxTreeHeight + 1}, g \in {garbage, junk}}
MalformedScenarios ==
  LET sc == HonestScenario(2, 1)
  IN {[sc EXCEPT !.proofs = UNION {Arrangements(p) : p \in @}],
      [sc EXCEPT !.values = UNION {Arrangements(e) : e \in @}],
      [sc EXCEPT !.proofs = {<<n>> \o p : n \in BadNodes, p \in @}]}

MCShapes == {HonestScenario(n, 1) : n \in 0..3} \cup {HonestScenario(5, 0)}
            \cup MalformedScenarios

-----------------------------------------------------------------------------
\* Documents for a list of length n and the list l: at every position the
\* honest hash, that of the neighbouring position, or one of no list (not at the root).
MixedScenario(l, n) ==
  Scenario(l, n,
    Fillings(Offer(Front(Slots(n, 0)), LAMBDA s :
      {[height |-> s[1], index |-> s[2], hash |-> x] :
         x \in {HonestHash(l, s[1], s[2]), junk,
                HonestHash(l, s[1], (s[2] + 1) - 2 * (s[2] % 2))}})),
    Fillings(Offer(Indexes(n), LAMBDA i : {[index |-> i, value |-> v] : v \in {a, b}})))

\* Lists and documents about them, also of another length than theirs.
MCMixed == {MixedScenario(<<a, b>>, 2), MixedScenario(<<a, b, b>>, 3),
            MixedScenario(<<a, b>>, 3), MixedScenario(<<a, b, a>>, 2)}

MCDocuments == MCShapes \cup MCMixed
MCValues == 1..6 \cup {a, b}

-----------------------------------------------------------------------------
\* Documents with values at negative indexes too.
MCNegative ==
  {Scenario(<<a, b>>, 2, {<<>>},
     Fillings([k \in 1..4 |-> {[index |-> k - 3, value |-> v] : v \in {a, b}}]))}

\* merkle.js:121, "Check that indexes of `entries` are appropriate": what is
\* accepted is at indexes of the list.
IndexesAppropriate ==
  outcome = "ok" => \A e \in Members(entries) : e.index \in 0..(length - 1)
=============================================================================
