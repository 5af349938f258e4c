--------------------------- MODULE OwnershipProofs ---------------------------
(***************************************************************************)
(* Theorems about Ownership, for any slugs, paths, documents and scopes.     *)
(***************************************************************************)
EXTENDS Ownership, CharterProofs

(* What a map of scopes is, stored or about to be. *)
Scoped(sc) == DOMAIN sc \in SUBSET Slugs /\ \A s \in DOMAIN sc : sc[s] \in SUBSET Directories

LEMMA PathLengths ==
  ASSUME NEW path \in SourceFiles \cup Directories
  PROVE  path \in Seq(Names) /\ Len(path) \in Nat
<1>1. path \in Seq(Names)
  BY PathsAssumption
<1> QED
  BY <1>1, LenProperties

LEMMA PrefixShorter ==
  ASSUME NEW path \in SourceFiles, NEW d \in Directories, IsStrictPrefix(d, path)
  PROVE  Len(d) \in Nat /\ Len(path) \in Nat /\ Len(d) <= Len(path)
BY PathLengths DEF IsStrictPrefix, IsPrefix

(* A file in a scope lies in a longest directory of it. *)
LEMMA LongestDirectory ==
  ASSUME NEW scope \in SUBSET Directories, NEW path \in SourceFiles,
         \E d \in scope : IsStrictPrefix(d, path)
  PROVE  /\ ScopePrefix(scope, path) \in scope
         /\ IsStrictPrefix(ScopePrefix(scope, path), path)
         /\ \A e \in scope : IsStrictPrefix(e, path) => Len(e) <= Len(ScopePrefix(scope, path))
<1> DEFINE holding == {d \in scope : IsStrictPrefix(d, path)}
           lacks == {Len(path) - Len(d) : d \in holding}
<1>1. \A d \in holding : d \in Directories /\ IsStrictPrefix(d, path)
  OBVIOUS
<1>2. \A d \in holding : Len(d) \in Nat /\ Len(path) \in Nat /\ Len(d) <= Len(path)
  BY <1>1, PrefixShorter
<1>3. lacks \in SUBSET Nat /\ lacks # {}
  BY <1>2
<1>4. PICK least \in lacks : \A x \in lacks : least <= x
  BY <1>3, LeastExists
<1>5. PICK d \in holding : least = Len(path) - Len(d)
  BY <1>4
<1>6. \A e \in holding : Len(e) <= Len(d)
  <2> SUFFICES ASSUME NEW e \in holding PROVE Len(e) <= Len(d)
    OBVIOUS
  <2>1. Len(path) - Len(d) <= Len(path) - Len(e)
    BY <1>4, <1>5
  <2> QED
    BY <1>2, <2>1
<1>7. \E m \in scope : /\ IsStrictPrefix(m, path)
                       /\ \A e \in scope : IsStrictPrefix(e, path) => Len(e) <= Len(m)
  BY <1>6
<1> QED
  BY <1>7 DEF ScopePrefix

-----------------------------------------------------------------------------
(* The claims on a file. *)

InScope(sc, s, path) == DocOf[s] # path /\ \E d \in sc[s] : IsStrictPrefix(d, path)

DocClaim(s) == [slug |-> s, source |-> "design_doc", score |-> 0]
ScopeClaim(sc, s, path) ==
  [slug |-> s, source |-> "scope", score |-> Len(ScopePrefix(sc[s], path))]

LEMMA ClaimsOfSpecs ==
  ASSUME NEW sc, NEW path
  PROVE  /\ \A s \in DOMAIN sc : DocOf[s] = path => DocClaim(s) \in Claims(sc, path)
         /\ \A s \in DOMAIN sc : InScope(sc, s, path) => ScopeClaim(sc, s, path) \in Claims(sc, path)
         /\ \A c \in Claims(sc, path) :
              /\ c.slug \in DOMAIN sc
              /\ \/ c = DocClaim(c.slug) /\ DocOf[c.slug] = path
                 \/ c = ScopeClaim(sc, c.slug, path) /\ InScope(sc, c.slug, path)
BY DEF Claims, DocClaim, ScopeClaim, InScope

(* Every spec has one claim at most, and scores are lengths of prefixes. *)
LEMMA ClaimFacts ==
  ASSUME NEW sc, Scoped(sc), NEW path \in SourceFiles
  PROVE  /\ \A c, e \in Claims(sc, path) : c.slug = e.slug => c = e
         /\ \A c \in Claims(sc, path) :
              /\ c.slug \in Slugs /\ c.score \in Nat /\ c.score <= Len(path)
              /\ c.source \in {"design_doc", "scope"}
<1>1. \A c, e \in Claims(sc, path) : c.slug = e.slug => c = e
  BY ClaimsOfSpecs DEF InScope
<1>2. ASSUME NEW c \in Claims(sc, path)
      PROVE  /\ c.slug \in Slugs /\ c.score \in Nat /\ c.score <= Len(path)
             /\ c.source \in {"design_doc", "scope"}
  <2>1. c.slug \in DOMAIN sc /\ c.slug \in Slugs /\ sc[c.slug] \in SUBSET Directories
    BY ClaimsOfSpecs DEF Scoped
  <2>2. CASE c = DocClaim(c.slug)
    <3>1. c.source = "design_doc" /\ c.score = 0
      BY <2>2 DEF DocClaim
    <3> QED
      BY <2>1, <3>1, PathLengths
  <2>3. CASE c = ScopeClaim(sc, c.slug, path) /\ InScope(sc, c.slug, path)
    <3>1. c.source = "scope" /\ c.score = Len(ScopePrefix(sc[c.slug], path))
      BY <2>3 DEF ScopeClaim
    <3>2. ScopePrefix(sc[c.slug], path) \in Directories
          /\ IsStrictPrefix(ScopePrefix(sc[c.slug], path), path)
      BY <2>1, <2>3, LongestDirectory DEF InScope
    <3> QED
      BY <2>1, <3>1, <3>2, PrefixShorter
  <2> QED
    BY <2>2, <2>3, ClaimsOfSpecs
<1> QED
  BY <1>1, <1>2

LEMMA ClaimsFinite ==
  ASSUME NEW sc, Scoped(sc), NEW path \in SourceFiles
  PROVE  IsFiniteSet(Claims(sc, path))
<1>1. PICK C, S : C = Claims(sc, path) /\ S = Slugs
  OBVIOUS
<1>2. IsFiniteSet(S)
  BY <1>1, SlugsAssumption
<1>3. PICK f : f = [c \in C |-> c.slug]
  OBVIOUS
<1>4. f \in Injection(C, S)
  BY <1>1, <1>3, ClaimFacts DEF Injection, IsInjective
<1>5. IsFiniteSet(C)
  BY <1>2, <1>4, FS_Injection
<1> QED
  BY <1>1, <1>5

(* The relation the claims are sorted by. *)
Beats(order, C) == {pair \in C \X C : ClaimBefore(order, pair[1], pair[2])}

LEMMA BeatsPairs ==
  ASSUME NEW order, NEW C, NEW a \in C, NEW b \in C
  PROVE  <<a, b>> \in Beats(order, C) <=> ClaimBefore(order, a, b)
BY DEF Beats

LEMMA BestClaim ==
  ASSUME NEW sc, Scoped(sc), NEW path \in SourceFiles, NEW order \in [Slugs -> Nat],
         NEW S \in (SUBSET Claims(sc, path)) \ {{}}
  PROVE  \E m \in S : \A c \in S \ {m} : ClaimBefore(order, m, c)
<1>1. \A c \in S : /\ c.slug \in Slugs /\ c.score \in Nat /\ c.score <= Len(path)
                   /\ c.source \in {"design_doc", "scope"}
                   /\ order[c.slug] \in Nat /\ c.slug \in Nat
  BY ClaimFacts, SlugsAssumption
<1>2. Len(path) \in Nat
  BY PathLengths
<1>3. PICK source : \E c \in S : c.source = source
                    /\ \A e \in S : e.source = source \/ (source = "design_doc" /\ e.source = "scope")
  <2>1. CASE \E c \in S : c.source = "design_doc"
    BY <1>1, <2>1
  <2>2. CASE \A c \in S : c.source # "design_doc"
    BY <1>1, <2>2
  <2> QED
    BY <2>1, <2>2
<1> DEFINE A == {c \in S : c.source = source}
<1>4. PICK x \in {Len(path) - c.score : c \in A} : \A c \in A : x <= Len(path) - c.score
  <2>1. {Len(path) - c.score : c \in A} \in SUBSET Nat /\ {Len(path) - c.score : c \in A} # {}
    BY <1>1, <1>2, <1>3
  <2>2. \E x \in {Len(path) - c.score : c \in A} : \A y \in {Len(path) - c.score : c \in A} : x <= y
    BY <2>1, LeastExists
  <2> QED
    BY <2>2
<1>5. PICK score \in Nat : /\ \E c \in A : c.score = score
                           /\ \A c \in A : c.score <= score
  <2>1. PICK c \in A : x = Len(path) - c.score
    BY <1>4
  <2>2. \A e \in A : e.score <= c.score
    BY <1>1, <1>2, <1>4, <2>1
  <2> QED
    BY <1>1, <2>2
<1> DEFINE B == {c \in A : c.score = score}
<1>6. PICK o \in {order[c.slug] : c \in B} : \A c \in B : o <= order[c.slug]
  <2>1. {order[c.slug] : c \in B} \in SUBSET Nat /\ {order[c.slug] : c \in B} # {}
    BY <1>1, <1>5
  <2>2. \E z \in {order[c.slug] : c \in B} : \A y \in {order[c.slug] : c \in B} : z <= y
    BY <2>1, LeastExists
  <2> QED
    BY <2>2
<1> DEFINE D == {c \in B : order[c.slug] = o}
<1>7. PICK m \in D : \A c \in D : m.slug <= c.slug
  <2>1. {c.slug : c \in D} \in SUBSET Nat /\ {c.slug : c \in D} # {}
    BY <1>1, <1>6
  <2>2. \E z \in {c.slug : c \in D} : \A y \in {c.slug : c \in D} : z <= y
    BY <2>1, LeastExists
  <2> QED
    BY <2>2
<1>8. ASSUME NEW c \in S \ {m}
      PROVE  ClaimBefore(order, m, c)
  <2>1. m \in S /\ m.source = source /\ m.score = score /\ order[m.slug] = o
    BY <1>7
  <2>2. CASE c.source # source
    BY <1>3, <2>1, <2>2 DEF ClaimBefore
  <2>3. CASE c.source = source /\ c.score # score
    <3>1. m.score > c.score
      BY <1>1, <1>5, <2>1, <2>3
    <3> QED
      BY <2>1, <2>3, <3>1 DEF ClaimBefore
  <2>4. CASE c.source = source /\ c.score = score /\ order[c.slug] # o
    <3>1. o <= order[c.slug]
      BY <1>6, <2>4
    <3>2. order[m.slug] \in Nat /\ order[c.slug] \in Nat
      BY <1>1, <2>1
    <3> HIDE DEF A, B, D
    <3>3. order[m.slug] < order[c.slug]
      BY <2>1, <2>4, <3>1, <3>2
    <3> QED
      BY <2>1, <2>4, <3>3 DEF ClaimBefore
  <2>5. CASE c.source = source /\ c.score = score /\ order[c.slug] = o
    <3>1. m.slug <= c.slug /\ m.slug # c.slug
      BY <1>7, <2>5, ClaimFacts
    <3>2. m.slug < c.slug
      BY <1>1, <2>1, <3>1
    <3> QED
      BY <2>1, <2>5, <3>2 DEF ClaimBefore
  <2> QED
    BY <2>2, <2>3, <2>4, <2>5
<1> QED
  BY <1>7, <1>8

(* Matches lists the claims, each once, and the first beats the others. *)
LEMMA MatchesSorted ==
  ASSUME NEW sc, Scoped(sc), NEW path \in SourceFiles, NEW order \in [Slugs -> Nat]
  PROVE  /\ ToSet(Matches(sc, order, path)) = Claims(sc, path)
         /\ Matches(sc, order, path) # << >> <=> Claims(sc, path) # {}
         /\ Claims(sc, path) # {} =>
              /\ Matches(sc, order, path)[1] \in Claims(sc, path)
              /\ \A c \in Claims(sc, path) \ {Matches(sc, order, path)[1]} :
                   ClaimBefore(order, Matches(sc, order, path)[1], c)
<1>1. PICK C, n, q : C = Claims(sc, path) /\ n = Cardinality(C) /\ q = Matches(sc, order, path)
  OBVIOUS
<1>2. IsFiniteSet(C) /\ n \in Nat
  BY <1>1, ClaimsFinite, FS_CardinalityType
<1>3. ASSUME NEW S \in (SUBSET C) \ {{}}
      PROVE  \E m \in S : \A c \in S \ {m} : <<m, c>> \in Beats(order, C)
  <2>1. PICK m \in S : \A c \in S \ {m} : ClaimBefore(order, m, c)
    BY <1>1, BestClaim
  <2> QED
    BY <2>1, BeatsPairs
<1>4. PICK r \in [1 .. n -> C] : \A i, j \in 1 .. n : i < j => <<r[i], r[j]>> \in Beats(order, C)
  BY <1>1, <1>2, <1>3, SortExists
<1>5. \A i, j \in 1 .. n : i < j => ClaimBefore(order, r[i], r[j])
  BY <1>4, BeatsPairs
<1>6. q = CHOOSE t \in [1 .. n -> C] : \A i, j \in 1 .. n : i < j => ClaimBefore(order, t[i], t[j])
  BY <1>1 DEF Matches
<1>7. q \in [1 .. n -> C] /\ \A i, j \in 1 .. n : i < j => ClaimBefore(order, q[i], q[j])
  BY <1>5, <1>6
<1>8. \A i, j \in 1 .. n : i < j => <<q[i], q[j]>> \in Beats(order, C)
  BY <1>7, BeatsPairs
<1>9. \A c \in C : <<c, c>> \notin Beats(order, C)
  <2> SUFFICES ASSUME NEW c \in C PROVE ~ClaimBefore(order, c, c)
    BY BeatsPairs
  <2>1. c.score \in Nat /\ order[c.slug] \in Nat /\ c.slug \in Nat
    BY <1>1, ClaimFacts, SlugsAssumption
  <2> QED
    BY <2>1 DEF ClaimBefore
<1>10. q \in Seq(C) /\ Len(q) = n /\ ToSet(q) = C /\ IsInjective(q)
  BY <1>1, <1>2, <1>7, <1>8, <1>9, SortedOnce
<1>11. q # << >> <=> C # {}
  <2>1. q = << >> => ToSet(q) = {}
    BY DEF ToSet
  <2>2. q # << >> => Head(q) \in ToSet(q)
    BY <1>10, HeadAndTail
  <2> QED
    BY <1>10, <2>1, <2>2
<1>12. ASSUME C # {}
       PROVE  q[1] \in C /\ \A c \in C \ {q[1]} : ClaimBefore(order, q[1], c)
  <2>1. n # 0
    BY <1>1, <1>2, <1>12, FS_EmptySet
  <2>2. 1 \in 1 .. n /\ q[1] \in C
    BY <1>2, <1>7, <2>1
  <2>3. ASSUME NEW c \in C \ {q[1]}
        PROVE  ClaimBefore(order, q[1], c)
    <3>1. PICK i \in 1 .. n : q[i] = c
      BY <1>7, <1>10 DEF ToSet
    <3>2. 1 < i
      BY <1>2, <2>3, <3>1
    <3> QED
      BY <1>7, <2>2, <3>1, <3>2
  <2> QED
    BY <2>2, <2>3
<1> QED
  BY <1>1, <1>10, <1>11, <1>12
-----------------------------------------------------------------------------
(* Who governs a file. *)

Above(c, e) ==
  \/ c.source = "design_doc" /\ e.source = "scope"
  \/ c.source = e.source /\ c.score > e.score

(* The claim that no other claim reaches decides. *)
LEMMA BestAlone ==
  ASSUME NEW sc, Scoped(sc), NEW path \in SourceFiles, NEW order \in [Slugs -> Nat]
  PROVE  /\ \/ GoverningSpec(sc, order, path) = {}
            \/ \E s \in DOMAIN sc : GoverningSpec(sc, order, path) = {s}
         /\ \A s \in DOMAIN sc :
              GoverningSpec(sc, order, path) = {s} <=>
                \E c \in Claims(sc, path) :
                  c.slug = s /\ \A e \in Claims(sc, path) \ {c} : Above(c, e)
<1>1. PICK C, q : C = Claims(sc, path) /\ q = Matches(sc, order, path)
  OBVIOUS
<1>2. /\ ToSet(q) = C
      /\ q # << >> <=> C # {}
      /\ C # {} => /\ q[1] \in C
                   /\ \A c \in C \ {q[1]} : ClaimBefore(order, q[1], c)
  BY <1>1, MatchesSorted
<1>3. \A c \in C : /\ c.slug \in DOMAIN sc /\ c.score \in Nat
                   /\ c.source \in {"design_doc", "scope"}
  BY <1>1, ClaimFacts, ClaimsOfSpecs
<1>4. CASE C = {}
  <2>1. GoverningSpec(sc, order, path) = {}
    BY <1>1, <1>2, <1>4 DEF GoverningSpec
  <2> QED
    BY <1>1, <1>4, <2>1
<1>5. CASE C # {}
  <2>1. PICK b : b = q[1] /\ b \in C /\ \A c \in C \ {b} : ClaimBefore(order, b, c)
    BY <1>2, <1>5
  <2>2. PICK rivals : rivals = Contenders(q)
    OBVIOUS
  <2>3. rivals = {c \in C : c.source = b.source /\ c.score = b.score}
    BY <1>2, <2>1, <2>2 DEF Contenders
  <2>4. Cardinality(rivals) = 1 <=> rivals = {b}
    <3>1. IsFiniteSet(rivals)
      <4>1. IsFiniteSet(C)
        BY <1>1, ClaimsFinite
      <4> QED
        BY <2>3, <4>1, FS_Subset
    <3>2. b \in rivals
      BY <2>1, <2>3
    <3> QED
      BY <3>1, <3>2, FS_Singleton
  <2>5. rivals = {b} <=> \A e \in C \ {b} : Above(b, e)
    <3>1. ASSUME NEW e \in C \ {b}
          PROVE  e \notin rivals <=> Above(b, e)
      <4>1. ClaimBefore(order, b, e) /\ b.score \in Nat /\ e.score \in Nat
        BY <1>3, <2>1
      <4>2. b.source = e.source /\ b.score = e.score => ~ Above(b, e)
        BY <4>1 DEF Above
      <4>3. ~ (b.source = e.source /\ b.score = e.score) => Above(b, e)
        BY <4>1 DEF Above, ClaimBefore
      <4> QED
        BY <2>3, <4>2, <4>3
    <3>2. b \in rivals /\ rivals \subseteq C
      BY <2>1, <2>3
    <3> QED
      BY <3>1, <3>2
  <2>6. GoverningSpec(sc, order, path) = IF rivals = {b} THEN {b.slug} ELSE {}
    BY <1>1, <1>2, <1>5, <2>1, <2>2, <2>4 DEF GoverningSpec
  <2>7. ASSUME NEW c \in C, \A e \in C \ {c} : Above(c, e)
        PROVE  c = b
    <3> SUFFICES ASSUME c # b PROVE FALSE
      OBVIOUS
    <3>1. Above(c, b) /\ ClaimBefore(order, b, c) /\ b.score \in Nat /\ c.score \in Nat
      BY <1>3, <2>1, <2>7
    <3> QED
      BY <3>1 DEF Above, ClaimBefore
  <2>8. b.slug \in DOMAIN sc
    BY <1>3, <2>1
  <2>9. \A c \in C : c.slug = b.slug => c = b
    BY <1>1, <2>1, ClaimFacts
  <2>10. ASSUME NEW s \in DOMAIN sc
         PROVE  GoverningSpec(sc, order, path) = {s} <=>
                  \E c \in C : c.slug = s /\ \A e \in C \ {c} : Above(c, e)
    <3>1. CASE rivals = {b}
      <4>1. GoverningSpec(sc, order, path) = {b.slug} /\ \A e \in C \ {b} : Above(b, e)
        BY <2>5, <2>6, <3>1
      <4>2. GoverningSpec(sc, order, path) = {s} <=> b.slug = s
        BY <4>1
      <4>3. (\E c \in C : c.slug = s /\ \A e \in C \ {c} : Above(c, e)) <=> b.slug = s
        BY <2>1, <2>7, <4>1
      <4> QED
        BY <4>2, <4>3
    <3>2. CASE rivals # {b}
      <4>1. GoverningSpec(sc, order, path) = {} /\ ~ \A e \in C \ {b} : Above(b, e)
        BY <2>5, <2>6, <3>2
      <4>2. ~ \E c \in C : c.slug = s /\ \A e \in C \ {c} : Above(c, e)
        BY <2>7, <4>1
      <4> QED
        BY <4>1, <4>2
    <3> QED
      BY <3>1, <3>2
  <2> QED
    BY <1>1, <2>6, <2>8, <2>10
<1> QED
  BY <1>4, <1>5

(* The document of s, or deeper in the scope of s than in any other. *)
MostSpecific(sc, path, s) ==
  \/ DocOf[s] = path
  \/ /\ \A t \in DOMAIN sc : DocOf[t] # path
     /\ \E d \in sc[s] :
          /\ IsStrictPrefix(d, path)
          /\ \A t \in DOMAIN sc \ {s} : \A e \in sc[t] :
               IsStrictPrefix(e, path) => Len(e) < Len(d)

LEMMA AloneIsMostSpecific ==
  ASSUME NEW sc, Scoped(sc), NEW path \in SourceFiles, NEW s \in DOMAIN sc
  PROVE  (\E c \in Claims(sc, path) : c.slug = s /\ \A e \in Claims(sc, path) \ {c} : Above(c, e))
           <=> MostSpecific(sc, path, s)
<1>1. PICK C : C = Claims(sc, path)
  OBVIOUS
<1>2. /\ \A t \in DOMAIN sc : DocOf[t] = path => DocClaim(t) \in C
      /\ \A t \in DOMAIN sc : InScope(sc, t, path) => ScopeClaim(sc, t, path) \in C
      /\ \A c \in C : /\ c.slug \in DOMAIN sc
                      /\ \/ c = DocClaim(c.slug) /\ DocOf[c.slug] = path
                         \/ c = ScopeClaim(sc, c.slug, path) /\ InScope(sc, c.slug, path)
  BY <1>1, ClaimsOfSpecs
<1>3. \A c, e \in C : c.slug = e.slug => c = e
  BY <1>1, ClaimFacts
<1>4. \A t : /\ DocClaim(t).slug = t /\ DocClaim(t).source = "design_doc"
             /\ ScopeClaim(sc, t, path).slug = t /\ ScopeClaim(sc, t, path).source = "scope"
             /\ ScopeClaim(sc, t, path).score = Len(ScopePrefix(sc[t], path))
  BY DEF DocClaim, ScopeClaim
<1>5. \A t \in DOMAIN sc : InScope(sc, t, path) =>
        /\ ScopePrefix(sc[t], path) \in sc[t]
        /\ IsStrictPrefix(ScopePrefix(sc[t], path), path)
        /\ \A e \in sc[t] : IsStrictPrefix(e, path) => Len(e) <= Len(ScopePrefix(sc[t], path))
  <2> SUFFICES ASSUME NEW t \in DOMAIN sc, InScope(sc, t, path)
               PROVE  /\ ScopePrefix(sc[t], path) \in sc[t]
                      /\ IsStrictPrefix(ScopePrefix(sc[t], path), path)
                      /\ \A e \in sc[t] :
                           IsStrictPrefix(e, path) => Len(e) <= Len(ScopePrefix(sc[t], path))
    OBVIOUS
  <2> QED
    BY LongestDirectory DEF InScope, Scoped
<1>6. \A t \in DOMAIN sc : \A e \in sc[t] : IsStrictPrefix(e, path) => Len(e) \in Nat
  BY PrefixShorter DEF Scoped
<1>7. ASSUME DocOf[s] = path
      PROVE  \E c \in C : c.slug = s /\ \A e \in C \ {c} : Above(c, e)
  <2>1. DocClaim(s) \in C
    BY <1>2, <1>7
  <2>2. ASSUME NEW e \in C \ {DocClaim(s)}
        PROVE  e.source = "scope"
    <3>1. e.slug \in DOMAIN sc /\ e.slug # s
      BY <1>2, <1>3, <1>4, <2>1, <2>2
    <3>2. DocOf[e.slug] # path
      BY <1>7, <3>1, DocsAssumption DEF IsInjective, Scoped
    <3> QED
      BY <1>2, <1>4, <3>2
  <2> QED
    BY <1>4, <2>1, <2>2 DEF Above
<1>8. ASSUME \A t \in DOMAIN sc : DocOf[t] # path,
             NEW d \in sc[s], IsStrictPrefix(d, path),
             \A t \in DOMAIN sc \ {s} : \A e \in sc[t] : IsStrictPrefix(e, path) => Len(e) < Len(d)
      PROVE  \E c \in C : c.slug = s /\ \A e \in C \ {c} : Above(c, e)
  <2>1. InScope(sc, s, path)
    BY <1>8 DEF InScope
  <2>2. PICK c \in C : c = ScopeClaim(sc, s, path)
    BY <1>2, <2>1
  <2>3. /\ c.slug = s /\ c.source = "scope" /\ c.score = Len(ScopePrefix(sc[s], path))
        /\ Len(d) <= c.score /\ c.score \in Nat /\ Len(d) \in Nat
    BY <1>4, <1>5, <1>6, <1>8, <2>1, <2>2
  <2>4. ASSUME NEW e \in C \ {c}
        PROVE  Above(c, e)
    <3>1. e.slug \in DOMAIN sc \ {s}
      BY <1>2, <1>3, <2>3, <2>4
    <3>2. e = ScopeClaim(sc, e.slug, path) /\ InScope(sc, e.slug, path)
      BY <1>2, <1>8, <3>1
    <3>3. e.source = "scope" /\ e.score = Len(ScopePrefix(sc[e.slug], path))
      BY <1>4, <3>2
    <3>4. e.score < Len(d) /\ e.score \in Nat
      BY <1>5, <1>6, <1>8, <3>1, <3>2, <3>3
    <3> QED
      BY <2>3, <3>3, <3>4 DEF Above
  <2> QED
    BY <2>3, <2>4
<1>9. ASSUME NEW c \in C, c.slug = s, \A e \in C \ {c} : Above(c, e), DocOf[s] # path
      PROVE  MostSpecific(sc, path, s)
  <2>1. c = ScopeClaim(sc, s, path) /\ InScope(sc, s, path)
    BY <1>2, <1>9
  <2>2. c.source = "scope" /\ c.score = Len(ScopePrefix(sc[s], path))
    BY <1>4, <2>1
  <2>3. \A t \in DOMAIN sc : DocOf[t] # path
    <3> SUFFICES ASSUME NEW t \in DOMAIN sc, DocOf[t] = path PROVE FALSE
      OBVIOUS
    <3>1. DocClaim(t) \in C \ {c} /\ DocClaim(t).source = "design_doc"
      BY <1>2, <1>4, <2>2
    <3> QED
      BY <1>9, <2>2, <3>1 DEF Above
  <2>4. PICK d \in sc[s] : d = ScopePrefix(sc[s], path) /\ IsStrictPrefix(d, path)
    BY <1>5, <2>1
  <2>5. ASSUME NEW t \in DOMAIN sc \ {s}, NEW e \in sc[t], IsStrictPrefix(e, path)
        PROVE  Len(e) < Len(d)
    <3>1. InScope(sc, t, path)
      BY <2>3, <2>5 DEF InScope
    <3>2. ScopeClaim(sc, t, path) \in C \ {c}
      BY <1>2, <1>4, <1>9, <3>1
    <3>3. Above(c, ScopeClaim(sc, t, path))
      BY <1>9, <3>2
    <3>4. Len(d) > Len(ScopePrefix(sc[t], path))
      BY <1>4, <2>2, <2>4, <3>3 DEF Above
    <3>5. /\ Len(e) <= Len(ScopePrefix(sc[t], path))
          /\ Len(e) \in Nat /\ Len(ScopePrefix(sc[t], path)) \in Nat /\ Len(d) \in Nat
      BY <1>5, <1>6, <2>4, <2>5, <3>1
    <3> QED
      BY <3>4, <3>5
  <2> QED
    BY <2>3, <2>4, <2>5 DEF MostSpecific
<1>10. MostSpecific(sc, path, s) => \E c \in C : c.slug = s /\ \A e \in C \ {c} : Above(c, e)
  BY <1>7, <1>8 DEF MostSpecific
<1>11. (\E c \in C : c.slug = s /\ \A e \in C \ {c} : Above(c, e)) => MostSpecific(sc, path, s)
  BY <1>9 DEF MostSpecific
<1> QED
  BY <1>1, <1>10, <1>11

(* Whatever place the charter gives the specs. *)
LEMMA GovernedByMostSpecific ==
  ASSUME NEW sc, Scoped(sc), NEW path \in SourceFiles, NEW order \in [Slugs -> Nat]
  PROVE  /\ \/ GoverningSpec(sc, order, path) = {}
            \/ \E s \in DOMAIN sc : GoverningSpec(sc, order, path) = {s}
         /\ \A s \in DOMAIN sc : GoverningSpec(sc, order, path) = {s} <=> MostSpecific(sc, path, s)
BY BestAlone, AloneIsMostSpecific
-----------------------------------------------------------------------------
(* The specification. *)

(* Every entry of a stored charter has its place. *)
LEMMA OrderTyped ==
  ASSUME StoredInv
  PROVE  CharterOrder(groups, entries) \in [Slugs -> Nat]
<1>1. PICK listed : listed = OrderedSpecs(groups, entries)
  OBVIOUS
<1>2. listed \in Seq(DOMAIN entries) /\ ToSet(listed) = DOMAIN entries
  BY <1>1, StoredJudged, UnblockedOrder DEF StoredInv, Accepted, OrderedSpecs
<1>3. listed \in [1 .. Len(listed) -> DOMAIN entries] /\ Len(listed) \in Nat
  BY <1>2, LenProperties
<1>4. ASSUME NEW s \in DOMAIN entries
      PROVE  SelectInSeq(listed, LAMBDA t : t = s) - 1 \in Nat
  <2> DEFINE places == {i \in 1 .. Len(listed) : listed[i] = s}
  <2>1. places \in SUBSET Nat /\ places # {}
    BY <1>2, <1>3, <1>4 DEF ToSet
  <2>2. \E x \in places : \A y \in places : x <= y
    BY <2>1, LeastExists
  <2>3. Min(places) \in places
    BY <2>2 DEF Min
  <2>4. SelectInSeq(listed, LAMBDA t : t = s) = Min(places)
    BY <2>1 DEF SelectInSeq
  <2> QED
    BY <1>3, <2>3, <2>4
<1> QED
  BY <1>1, <1>4 DEF CharterOrder

LEMMA StoredOrder == StoredInv => CharterOrder(groups, entries) \in [Slugs -> Nat]
BY OrderTyped

(* A command of the charter, and the scopes that go with the tracking files.  *)
LEMMA StepScoped ==
  ASSUME OTypeOK, [ONext]_ovars
  PROVE  [Next]_vars /\ scopes' \in [trackings' -> ScopeChoices] /\ prefixes' \subseteq Directories
<1>1. TypeOK /\ scopes \in [trackings -> ScopeChoices] /\ prefixes \subseteq Directories
  BY DEF OTypeOK
<1>2. ASSUME NEW s \in Slugs, NEW e \in Entry, NEW o \in GroupOrders, NEW scope \in ScopeChoices,
             ScopedCreate(s, e, o, scope)
      PROVE  /\ [Next]_vars
             /\ scopes' \in [trackings' -> ScopeChoices] /\ prefixes' \subseteq Directories
  <2>1. CreateSpec(s, e, o) /\ trackings' = trackings \cup {s} /\ prefixes' = prefixes
    BY <1>2 DEF ScopedCreate, CreateSpec, Apply
  <2>2. scopes' = [t \in trackings \cup {s} |-> IF t = s THEN scope ELSE scopes[t]]
    BY <1>2 DEF ScopedCreate
  <2> QED
    BY <1>1, <2>1, <2>2 DEF Next
<1>3. CASE CharterEdit
  <2>1. trackings' = trackings
    BY <1>3 DEF CharterEdit, AddSpec, RemoveSpec, Apply
  <2>2. Next
    BY <1>3 DEF CharterEdit, Next
  <2> QED
    BY <1>1, <1>3, <2>1, <2>2 DEF CharterEdit
<1>4. ASSUME NEW s \in Slugs, LoseScopedTracking(s)
      PROVE  /\ [Next]_vars
             /\ scopes' \in [trackings' -> ScopeChoices] /\ prefixes' \subseteq Directories
  <2>1. LoseTracking(s) /\ trackings' = trackings \ {s} /\ prefixes' = prefixes
    BY <1>4 DEF LoseScopedTracking, LoseTracking
  <2>2. scopes' = [t \in trackings \ {s} |-> scopes[t]]
    BY <1>4 DEF LoseScopedTracking
  <2> QED
    BY <1>1, <2>1, <2>2 DEF Next
<1>5. ASSUME NEW p \in Directories, ConfigEdit(p)
      PROVE  /\ [Next]_vars
             /\ scopes' \in [trackings' -> ScopeChoices] /\ prefixes' \subseteq Directories
  BY <1>1, <1>5 DEF ConfigEdit, vars
<1>6. CASE UNCHANGED ovars
  BY <1>1, <1>6 DEF ovars, vars
<1> QED
  BY <1>2, <1>3, <1>4, <1>5, <1>6 DEF ONext

(* While scopes and prefixes are kept beside it, the charter behaves as      *)
(* module Charter says, tracking files and their scopes come and go together, *)
(* and every scope stored is one that spec create accepted.                   *)
THEOREM OwnershipTyped == OSpec => Spec /\ []OTypeOK
<1>1. OInit => Init /\ OTypeOK
  BY InitTyped DEF OInit, OTypeOK, Init
<1>2. ASSUME OTypeOK, [ONext]_ovars
      PROVE  OTypeOK' /\ [Next]_vars
  <2>1. [Next]_vars /\ scopes' \in [trackings' -> ScopeChoices] /\ prefixes' \subseteq Directories
    BY <1>2, StepScoped
  <2>2. TypeOK'
    BY <1>2, <2>1, StepTyped DEF OTypeOK
  <2> QED
    BY <2>1, <2>2 DEF OTypeOK
<1>3. OTypeOK /\ [ONext]_ovars => OTypeOK' /\ [Next]_vars
  BY <1>2
<1> QED
  BY <1>1, <1>3, PTL DEF OSpec, Spec

LEMMA StoredScoped ==
  ASSUME OTypeOK
  PROVE  Scoped(scopes) /\ DOMAIN scopes = trackings
BY PathsAssumption DEF OTypeOK, TypeOK, Scoped

(* A spec governs a file exactly when the file is its document or, the       *)
(* document of nobody, lies deeper in its scope than in the scope of any       *)
(* other spec: the order of the charter, which the claims are sorted by last,  *)
(* never decides.                                                              *)
THEOREM MostSpecificGoverns == OSpec => []GovernsMostSpecific
<1>1. ASSUME OTypeOK, StoredInv
      PROVE  GovernsMostSpecific
  <2>1. Scoped(scopes) /\ DOMAIN scopes = trackings
    BY <1>1, StoredScoped
  <2>2. CharterOrder(groups, entries) \in [Slugs -> Nat]
    BY <1>1, OrderTyped
  <2>3. \A path \in SourceFiles, s \in trackings :
          Governs(path) = {s} <=> MostSpecific(scopes, path, s)
    BY <2>1, <2>2, GovernedByMostSpecific DEF Governs
  <2> QED
    BY <2>1, <2>3 DEF GovernsMostSpecific, MostSpecific
<1>2. OTypeOK /\ StoredInv => GovernsMostSpecific
  BY <1>1
<1> QED
  BY <1>2, OwnershipTyped, AlwaysStored, PTL

(* Specs that appear or disappear concern their own files only. *)
LEMMA SameSpecificity ==
  ASSUME NEW sc, Scoped(sc), NEW more, Scoped(more), NEW path \in SourceFiles,
         \A s \in DOMAIN sc \cap DOMAIN more : sc[s] = more[s],
         \A s \in (DOMAIN sc \ DOMAIN more) \cup (DOMAIN more \ DOMAIN sc) :
           /\ DocOf[s] # path
           /\ \A d \in (IF s \in DOMAIN sc THEN sc[s] ELSE more[s]) : ~ IsStrictPrefix(d, path),
         NEW order \in [Slugs -> Nat], NEW other \in [Slugs -> Nat]
  PROVE  GoverningSpec(sc, order, path) = GoverningSpec(more, other, path)
<1>1. \A s \in DOMAIN sc : MostSpecific(sc, path, s) =>
        s \in DOMAIN more /\ MostSpecific(more, path, s)
  BY DEF MostSpecific
<1>2. \A s \in DOMAIN more : MostSpecific(more, path, s) =>
        s \in DOMAIN sc /\ MostSpecific(sc, path, s)
  BY DEF MostSpecific
<1>3. PICK a, b : a = GoverningSpec(sc, order, path) /\ b = GoverningSpec(more, other, path)
  OBVIOUS
<1>4. /\ a = {} \/ \E s \in DOMAIN sc : a = {s}
      /\ \A s \in DOMAIN sc : a = {s} <=> MostSpecific(sc, path, s)
  BY <1>3, GovernedByMostSpecific
<1>5. /\ b = {} \/ \E s \in DOMAIN more : b = {s}
      /\ \A s \in DOMAIN more : b = {s} <=> MostSpecific(more, path, s)
  BY <1>3, GovernedByMostSpecific
<1> QED
  BY <1>1, <1>2, <1>3, <1>4, <1>5

(* Who governs a file is decided by the tracking files alone: no command on  *)
(* the charter and no edit of the config moves a file from one spec to          *)
(* another, and a spec that appears or disappears concerns its own files only. *)
THEOREM OwnershipStaysLocal == OSpec => OwnershipIsLocal
<1> DEFINE Local ==
      \A path \in SourceFiles :
        GoverningSpec(scopes', CharterOrder(groups', entries'), path) # Governs(path) =>
          \E s \in (trackings \ trackings') \cup (trackings' \ trackings) :
            \/ DocOf[s] = path
            \/ \E d \in (IF s \in trackings THEN scopes[s] ELSE scopes'[s]) :
                 IsStrictPrefix(d, path)
<1>1. ASSUME OTypeOK, OTypeOK', StoredInv, StoredInv', [ONext]_ovars
      PROVE  Local
  <2>1. Scoped(scopes) /\ DOMAIN scopes = trackings
    BY <1>1, StoredScoped
  <2>2. Scoped(scopes') /\ DOMAIN scopes' = trackings'
    BY <1>1, PathsAssumption DEF OTypeOK, TypeOK, Scoped
  <2>3. CharterOrder(groups, entries) \in [Slugs -> Nat]
    BY <1>1, OrderTyped
  <2>4. CharterOrder(groups', entries') \in [Slugs -> Nat]
    <3>1. (StoredInv => CharterOrder(groups, entries) \in [Slugs -> Nat])'
      BY StoredOrder, PTL
    <3> QED
      BY <1>1, <3>1
  <2>5. \A s \in trackings \cap trackings' : scopes[s] = scopes'[s]
    <3>1. ASSUME NEW s \in Slugs, NEW e \in Entry, NEW o \in GroupOrders,
                 NEW scope \in ScopeChoices, ScopedCreate(s, e, o, scope)
          PROVE  \A t \in trackings \cap trackings' : scopes[t] = scopes'[t]
      BY <3>1 DEF ScopedCreate, CreateSpec
    <3>2. ASSUME NEW s \in Slugs, LoseScopedTracking(s)
          PROVE  \A t \in trackings \cap trackings' : scopes[t] = scopes'[t]
      BY <3>2 DEF LoseScopedTracking, LoseTracking
    <3> QED
      BY <1>1, <3>1, <3>2 DEF ONext, CharterEdit, ConfigEdit, ovars
  <2>6. ASSUME NEW path \in SourceFiles,
               \A s \in (trackings \ trackings') \cup (trackings' \ trackings) :
                 /\ DocOf[s] # path
                 /\ \A d \in (IF s \in trackings THEN scopes[s] ELSE scopes'[s]) :
                      ~ IsStrictPrefix(d, path)
        PROVE  GoverningSpec(scopes', CharterOrder(groups', entries'), path) = Governs(path)
    <3>1. PICK sc, more, order, other :
            /\ sc = scopes /\ more = scopes'
            /\ order = CharterOrder(groups, entries) /\ other = CharterOrder(groups', entries')
      OBVIOUS
    <3>2. GoverningSpec(sc, order, path) = GoverningSpec(more, other, path)
      BY <2>1, <2>2, <2>3, <2>4, <2>5, <2>6, <3>1, SameSpecificity
    <3> QED
      BY <3>1, <3>2 DEF Governs
  <2> QED
    BY <2>6
<1>2. OTypeOK /\ OTypeOK' /\ StoredInv /\ StoredInv' /\ [ONext]_ovars => [Local]_ovars
  BY <1>1
<1>3. OwnershipIsLocal <=> [][Local]_ovars
  BY DEF OwnershipIsLocal
<1> HIDE DEF Local
<1> QED
  BY <1>2, <1>3, OwnershipTyped, AlwaysStored, PTL DEF OSpec
-----------------------------------------------------------------------------
(* What the hook reports, as a function of the set of staged files. *)

(* The specs a file concerns, and the one it is governed by. *)
Hits(f) == IF Considered(f) THEN AffectedTargets(f) ELSE {}
Governed(f, s) == f.kind = "source" /\ Considered(f) /\ s \in Governs(f.path)

TrackingIn(F, s) == IF \E f \in F : f.kind = "tracking" /\ f.slug = s THEN TRUE ELSE FALSE
DocIn(F, s)      == IF \E f \in F : Governed(f, s) /\ f.path = DocOf[s] THEN TRUE ELSE FALSE
FilesIn(F, s)    == {f \in F : Governed(f, s) /\ f.path # DocOf[s]}
StagedOf(F, s)   == [tracking |-> TrackingIn(F, s), doc |-> DocIn(F, s), files |-> FilesIn(F, s)]

UnmatchedIn(F) == {f \in F : f.kind = "source" /\ Considered(f) /\ Governs(f.path) = {}}
IgnoredIn(F)   == {f \in F : ~ Considered(f)}

Summary(F) ==
  [affected  |-> [s \in UNION {Hits(f) : f \in F} |-> StagedOf(F, s)],
   unmatched |-> UnmatchedIn(F),
   ignored   |-> IgnoredIn(F)]

LEMMA KindsOfStaged ==
  ASSUME NEW f \in StagedFiles
  PROVE  /\ f.kind \in {"tracking", "charter", "config", "source"}
         /\ f.kind = "tracking" => f.slug \in Slugs
         /\ f.kind = "source" => f.path \in SourceFiles
BY DEF StagedFiles

(* A file that says something of a spec concerns it. *)
LEMMA NothingStaged ==
  ASSUME NEW F \in SUBSET StagedFiles, NEW s, s \notin UNION {Hits(f) : f \in F}
  PROVE  StagedOf(F, s) = NotStaged
<1>1. \A f \in F : s \notin Hits(f)
  OBVIOUS
<1>2. \A f \in F : ~ Governed(f, s)
  <2> SUFFICES ASSUME NEW f \in F, Governed(f, s) PROVE s \in Hits(f)
    BY <1>1
  <2> QED
    BY DEF Governed, Hits, AffectedTargets
<1>3. \A f \in F : ~ (f.kind = "tracking" /\ f.slug = s)
  <2> SUFFICES ASSUME NEW f \in F, f.kind = "tracking", f.slug = s PROVE s \in Hits(f)
    BY <1>1
  <2> QED
    BY DEF Considered, Hits, AffectedTargets
<1> QED
  BY <1>2, <1>3 DEF StagedOf, TrackingIn, DocIn, FilesIn, NotStaged

(* Before a file is recorded its specs have their entries. *)
LEMMA EntriesStarted ==
  ASSUME NEW F \in SUBSET StagedFiles, NEW targets
  PROVE  Affected(Summary(F).affected, targets)
           = [s \in (UNION {Hits(f) : f \in F}) \cup targets |-> StagedOf(F, s)]
<1>1. PICK D : D = UNION {Hits(f) : f \in F}
  OBVIOUS
<1>2. Summary(F).affected = [s \in D |-> StagedOf(F, s)]
  BY <1>1 DEF Summary
<1>3. \A s \in targets : s \notin D => StagedOf(F, s) = NotStaged
  BY <1>1, NothingStaged
<1> QED
  BY <1>1, <1>2, <1>3 DEF Affected

(* What one more file changes. *)
LEMMA OneMoreFile ==
  ASSUME NEW F \in SUBSET StagedFiles, NEW f \in StagedFiles, NEW s
  PROVE  /\ TrackingIn(F \cup {f}, s) =
              IF f.kind = "tracking" /\ f.slug = s THEN TRUE ELSE TrackingIn(F, s)
         /\ DocIn(F \cup {f}, s) =
              IF Governed(f, s) /\ f.path = DocOf[s] THEN TRUE ELSE DocIn(F, s)
         /\ FilesIn(F \cup {f}, s) =
              IF Governed(f, s) /\ f.path # DocOf[s] THEN FilesIn(F, s) \cup {f} ELSE FilesIn(F, s)
<1>1. PICK G : G = F \cup {f}
  OBVIOUS
<1>2. (\E h \in G : h.kind = "tracking" /\ h.slug = s)
        <=> (f.kind = "tracking" /\ f.slug = s) \/ \E h \in F : h.kind = "tracking" /\ h.slug = s
  BY <1>1
<1>3. (\E h \in G : Governed(h, s) /\ h.path = DocOf[s])
        <=> (Governed(f, s) /\ f.path = DocOf[s]) \/ \E h \in F : Governed(h, s) /\ h.path = DocOf[s]
  BY <1>1
<1>4. FilesIn(G, s) = IF Governed(f, s) /\ f.path # DocOf[s] THEN FilesIn(F, s) \cup {f} ELSE FilesIn(F, s)
  BY <1>1 DEF FilesIn
<1>5. TrackingIn(G, s) = IF f.kind = "tracking" /\ f.slug = s THEN TRUE ELSE TrackingIn(F, s)
  BY <1>2 DEF TrackingIn
<1>6. DocIn(G, s) = IF Governed(f, s) /\ f.path = DocOf[s] THEN TRUE ELSE DocIn(F, s)
  BY <1>3 DEF DocIn
<1> QED
  BY <1>1, <1>4, <1>5, <1>6

(* A file that is neither its tracking file nor governed by it tells nothing *)
(* about a spec.                                                              *)
LEMMA FileElsewhere ==
  ASSUME NEW F \in SUBSET StagedFiles, NEW f \in StagedFiles, NEW s,
         ~ Governed(f, s), ~ (f.kind = "tracking" /\ f.slug = s)
  PROVE  StagedOf(F \cup {f}, s) = StagedOf(F, s)
<1>1. TrackingIn(F \cup {f}, s) = IF f.kind = "tracking" /\ f.slug = s THEN TRUE ELSE TrackingIn(F, s)
  BY OneMoreFile, ZenonT(40)
<1>2. DocIn(F \cup {f}, s) = IF Governed(f, s) /\ f.path = DocOf[s] THEN TRUE ELSE DocIn(F, s)
  BY OneMoreFile, ZenonT(40)
<1>3. FilesIn(F \cup {f}, s) = IF Governed(f, s) /\ f.path # DocOf[s]
                             THEN FilesIn(F, s) \cup {f} ELSE FilesIn(F, s)
  BY OneMoreFile, ZenonT(40)
<1> QED
  BY <1>1, <1>2, <1>3 DEF StagedOf

LEMMA SourceTracksNothing ==
  ASSUME NEW F \in SUBSET StagedFiles, NEW f \in StagedFiles, NEW s, f.kind = "source"
  PROVE  TrackingIn(F \cup {f}, s) = TrackingIn(F, s)
<1>1. TrackingIn(F \cup {f}, s) = IF f.kind = "tracking" /\ f.slug = s THEN TRUE ELSE TrackingIn(F, s)
  BY OneMoreFile, ZenonT(40)
<1> QED
  BY <1>1

LEMMA OneMoreUnaffected ==
  ASSUME NEW F \in SUBSET StagedFiles, NEW f \in StagedFiles
  PROVE  /\ UnmatchedIn(F \cup {f}) =
              IF f.kind = "source" /\ Considered(f) /\ Governs(f.path) = {}
              THEN UnmatchedIn(F) \cup {f} ELSE UnmatchedIn(F)
         /\ IgnoredIn(F \cup {f}) = IF Considered(f) THEN IgnoredIn(F) ELSE IgnoredIn(F) \cup {f}
BY DEF UnmatchedIn, IgnoredIn

LEMMA SummaryGrows ==
  ASSUME NEW F \in SUBSET StagedFiles, NEW f \in StagedFiles,
         f.kind = "source" => (Governs(f.path) = {} \/ \E s : Governs(f.path) = {s})
  PROVE  HookEntry(Summary(F), f) = Summary(F \cup {f})
<1>1. PICK D, G, before, after, report :
        /\ D = UNION {Hits(h) : h \in F} /\ G = F \cup {f}
        /\ before = Summary(F) /\ after = Summary(G) /\ report = HookEntry(before, f)
  OBVIOUS
<1>10. G = F \cup {f}
  BY <1>1
<1>2. UNION {Hits(h) : h \in G} = D \cup Hits(f)
  BY <1>1
<1>3. PICK have, wanted : /\ have = [s \in D |-> StagedOf(F, s)]
                          /\ wanted = [s \in D \cup Hits(f) |-> StagedOf(G, s)]
  OBVIOUS
<1>0. PICK yes : yes = TRUE
  OBVIOUS
<1>4. before = [affected |-> have, unmatched |-> UnmatchedIn(F), ignored |-> IgnoredIn(F)]
  BY <1>1, <1>3 DEF Summary
<1>5. after = [affected |-> wanted, unmatched |-> UnmatchedIn(G), ignored |-> IgnoredIn(G)]
  BY <1>1, <1>2, <1>3 DEF Summary
<1>6. PICK started : /\ started = Affected(before.affected, AffectedTargets(f))
                     /\ started = [s \in D \cup AffectedTargets(f) |-> StagedOf(F, s)]
  BY <1>1, EntriesStarted
<1>7. \A s : ~ Governed(f, s) /\ ~ (f.kind = "tracking" /\ f.slug = s)
               => StagedOf(G, s) = StagedOf(F, s)
  <2> SUFFICES ASSUME NEW s, ~ Governed(f, s), ~ (f.kind = "tracking" /\ f.slug = s)
               PROVE  StagedOf(G, s) = StagedOf(F, s)
    OBVIOUS
  <2>1. StagedOf(F \cup {f}, s) = StagedOf(F, s)
    BY FileElsewhere
  <2> QED
    BY <1>10, <2>1
<1>8. CASE ~ Considered(f)
  <2>1. f.kind = "source" /\ Hits(f) = {} /\ \A s : ~ Governed(f, s)
    BY <1>8 DEF Hits, Governed, Considered
  <2>2. wanted = have
    BY <1>3, <1>7, <2>1
  <2>3. UnmatchedIn(G) = UnmatchedIn(F) /\ IgnoredIn(G) = IgnoredIn(F) \cup {f}
    BY <1>10, <1>8, OneMoreUnaffected
  <2>4. report = [before EXCEPT !.ignored = @ \cup {f}]
    BY <1>1, <1>8 DEF HookEntry
  <2>5. report = after
    BY <1>4, <1>5, <2>2, <2>3, <2>4
  <2> QED
    BY <1>1, <2>5
<1>9. CASE Considered(f)
  <2>1. Hits(f) = AffectedTargets(f)
    BY <1>9 DEF Hits
  <2>2. started = [s \in D \cup Hits(f) |-> StagedOf(F, s)]
    BY <1>6, <2>1
  <2>3. IgnoredIn(G) = IgnoredIn(F)
    BY <1>10, <1>9, OneMoreUnaffected
  <2>4. CASE f.kind \in {"config", "charter"}
    <3>1. report = [before EXCEPT !.affected = started]
      BY <1>1, <1>6, <1>9, <2>4 DEF HookEntry
    <3>2. wanted = started
      BY <1>3, <1>7, <2>2, <2>4 DEF Governed
    <3>3. UnmatchedIn(G) = UnmatchedIn(F)
      BY <1>10, <2>4, OneMoreUnaffected
    <3>4. report = after
      BY <1>4, <1>5, <2>3, <3>1, <3>2, <3>3
    <3> QED
      BY <1>1, <3>4
  <2>5. CASE f.kind = "tracking"
    <3>0. PICK marked : marked = [started EXCEPT ![f.slug].tracking = yes]
      OBVIOUS
    <3>1. report = [before EXCEPT !.affected = marked]
      BY <1>0, <1>1, <1>6, <1>9, <2>5, <3>0 DEF HookEntry
    <3>2. f.slug \in Hits(f)
      BY <2>1, <2>5 DEF AffectedTargets
    <3>3. \A s : s # f.slug => StagedOf(G, s) = StagedOf(F, s)
      BY <1>7, <2>5 DEF Governed
    <3>4. StagedOf(G, f.slug) = [StagedOf(F, f.slug) EXCEPT !.tracking = yes]
      <4>1. ~ Governed(f, f.slug)
        BY <2>5 DEF Governed
      <4>2. /\ TrackingIn(G, f.slug) = yes /\ DocIn(G, f.slug) = DocIn(F, f.slug)
            /\ FilesIn(G, f.slug) = FilesIn(F, f.slug)
        BY <1>0, <1>10, <2>5, <4>1, OneMoreFile, ZenonT(40)
      <4> QED
        BY <4>2 DEF StagedOf
    <3>5. UnmatchedIn(G) = UnmatchedIn(F)
      BY <1>10, <2>5, OneMoreUnaffected
    <3>6. marked = wanted
      BY <1>3, <2>2, <3>0, <3>2, <3>3, <3>4
    <3>7. report = after
      BY <1>4, <1>5, <2>3, <3>1, <3>5, <3>6
    <3> QED
      BY <1>1, <3>7
  <2>6. CASE f.kind = "source" /\ Governs(f.path) = {}
    <3>1. AffectedTargets(f) = {} /\ \A s : ~ Governed(f, s)
      BY <2>6 DEF AffectedTargets, Governed
    <3>2. report = [before EXCEPT !.unmatched = @ \cup {f}]
      BY <1>1, <1>9, <2>6, <3>1 DEF HookEntry
    <3>3. wanted = have
      BY <1>3, <1>7, <2>1, <2>6, <3>1
    <3>4. UnmatchedIn(G) = UnmatchedIn(F) \cup {f}
      BY <1>10, <1>9, <2>6, OneMoreUnaffected
    <3>5. report = after
      BY <1>4, <1>5, <2>3, <3>2, <3>3, <3>4
    <3> QED
      BY <1>1, <3>5
  <2>7. CASE f.kind = "source" /\ Governs(f.path) # {}
    <3>1. PICK s : Governs(f.path) = {s} /\ AffectedTargets(f) = {s}
      BY <2>7 DEF AffectedTargets
    <3>2. s = CHOOSE t \in AffectedTargets(f) : TRUE
      BY <3>1
    <3>0. PICK marked : marked = IF f.path = DocOf[s] THEN [started EXCEPT ![s].doc = yes]
                                 ELSE [started EXCEPT ![s].files = @ \cup {f}]
      OBVIOUS
    <3>3. report = [before EXCEPT !.affected = marked]
      BY <1>0, <1>1, <1>6, <1>9, <2>7, <3>0, <3>1, <3>2 DEF HookEntry
    <3>4. s \in Hits(f) /\ Governed(f, s) /\ \A t : t # s => ~ Governed(f, t)
      BY <1>9, <2>1, <2>7, <3>1 DEF Governed
    <3>5. \A t : t # s => StagedOf(G, t) = StagedOf(F, t)
      BY <1>7, <2>7, <3>4
    <3>6. UnmatchedIn(G) = UnmatchedIn(F)
      BY <1>10, <2>7, OneMoreUnaffected
    <3>7. StagedOf(G, s) = [tracking |-> TrackingIn(F, s), doc |-> DocIn(G, s), files |-> FilesIn(G, s)]
      <4>0. TrackingIn(F \cup {f}, s) = TrackingIn(F, s)
        BY <2>7, SourceTracksNothing
      <4>1. TrackingIn(G, s) = TrackingIn(F, s)
        BY <1>10, <4>0
      <4> QED
        BY <4>1 DEF StagedOf
    <3>8. CASE f.path = DocOf[s]
      <4>1. DocIn(G, s) = yes /\ FilesIn(G, s) = FilesIn(F, s)
        BY <1>0, <1>10, <3>4, <3>8, OneMoreFile
      <4>2. StagedOf(G, s) = [StagedOf(F, s) EXCEPT !.doc = yes]
        BY <3>7, <4>1 DEF StagedOf
      <4>3. marked = wanted
        BY <1>3, <2>2, <3>0, <3>4, <3>5, <3>8, <4>2
      <4>4. report = after
        BY <1>4, <1>5, <2>3, <3>3, <3>6, <4>3
      <4> QED
        BY <1>1, <4>4
    <3>9. CASE f.path # DocOf[s]
      <4>1. DocIn(G, s) = DocIn(F, s) /\ FilesIn(G, s) = FilesIn(F, s) \cup {f}
        BY <1>10, <3>4, <3>9, OneMoreFile
      <4>2. StagedOf(G, s) = [StagedOf(F, s) EXCEPT !.files = @ \cup {f}]
        BY <3>7, <4>1 DEF StagedOf
      <4>3. marked = wanted
        BY <1>3, <2>2, <3>0, <3>4, <3>5, <3>9, <4>2
      <4>4. report = after
        BY <1>4, <1>5, <2>3, <3>3, <3>6, <4>3
      <4> QED
        BY <1>1, <4>4
    <3> QED
      BY <3>8, <3>9
  <2> QED
    BY <2>4, <2>5, <2>6, <2>7, KindsOfStaged
<1> QED
  BY <1>8, <1>9

LEMMA SummaryOfNothing == Summary({}) = NoReport
<1>1. UNION {Hits(f) : f \in {}} = {}
  OBVIOUS
<1>2. [s \in {} |-> StagedOf({}, s)] = << >>
  OBVIOUS
<1>3. UnmatchedIn({}) = {} /\ IgnoredIn({}) = {}
  BY DEF UnmatchedIn, IgnoredIn
<1>4. Summary({}).affected = << >>
  BY <1>1, <1>2 DEF Summary
<1> QED
  BY <1>1, <1>2, <1>3 DEF Summary, NoReport

Reports(staged, N, f) ==
  f = [n \in 0 .. N |-> IF n = 0 THEN NoReport ELSE HookEntry(f[n - 1], staged[n])]

(* One file at a time, and still only the set of files matters. *)
LEMMA HookIsSummary ==
  ASSUME OTypeOK, StoredInv, NEW staged \in Seq(StagedFiles)
  PROVE  Hook(staged) = Summary(ToSet(staged))
<1>1. PICK N : N = Len(staged) /\ N \in Nat
  BY LenProperties
<1>2. staged \in [1 .. N -> StagedFiles]
  BY <1>1, LenProperties
<1> DEFINE First(n) == {staged[i] : i \in 1 .. n}
<1>3. \A n \in 0 .. N : First(n) \in SUBSET StagedFiles
  BY <1>1, <1>2
<1>4. \A n \in 1 .. N : First(n) = First(n - 1) \cup {staged[n]}
  <2> SUFFICES ASSUME NEW n \in 1 .. N PROVE First(n) = First(n - 1) \cup {staged[n]}
    OBVIOUS
  <2>1. 1 .. n = (1 .. n - 1) \cup {n}
    BY <1>1
  <2> QED
    BY <2>1
<1>5. First(0) = {} /\ First(N) = ToSet(staged)
  BY <1>1, <1>2 DEF ToSet
<1>6. \A path \in SourceFiles : Governs(path) = {} \/ \E s : Governs(path) = {s}
  <2>1. PICK sc, order : sc = scopes /\ order = CharterOrder(groups, entries)
    OBVIOUS
  <2>2. Scoped(sc) /\ order \in [Slugs -> Nat]
    BY <2>1, StoredScoped, OrderTyped
  <2>3. \A path \in SourceFiles : \/ GoverningSpec(sc, order, path) = {}
                                  \/ \E s \in DOMAIN sc : GoverningSpec(sc, order, path) = {s}
    BY <2>2, GovernedByMostSpecific
  <2> QED
    BY <2>1, <2>3 DEF Governs
<1>7. \A n \in 1 .. N : HookEntry(Summary(First(n - 1)), staged[n]) = Summary(First(n))
  <2> SUFFICES ASSUME NEW n \in 1 .. N
               PROVE  HookEntry(Summary(First(n - 1)), staged[n]) = Summary(First(n))
    OBVIOUS
  <2>1. PICK F, f : F = First(n - 1) /\ f = staged[n]
    OBVIOUS
  <2>2. F \in SUBSET StagedFiles /\ f \in StagedFiles /\ First(n) = F \cup {f}
    BY <1>1, <1>2, <1>3, <1>4, <2>1
  <2>3. f.kind = "source" => (Governs(f.path) = {} \/ \E s : Governs(f.path) = {s})
    BY <1>6, <2>2, KindsOfStaged
  <2>4. HookEntry(Summary(F), f) = Summary(F \cup {f})
    BY <2>2, <2>3, SummaryGrows
  <2> QED
    BY <2>1, <2>2, <2>4
<1> HIDE DEF First
<1>8. Reports(staged, N, [n \in 0 .. N |-> Summary(First(n))])
  <2>1. PICK f : f = [n \in 0 .. N |-> Summary(First(n))]
    OBVIOUS
  <2>2. \A n \in 0 .. N : f[n] = IF n = 0 THEN NoReport ELSE HookEntry(f[n - 1], staged[n])
    <3> SUFFICES ASSUME NEW n \in 0 .. N
                 PROVE  f[n] = IF n = 0 THEN NoReport ELSE HookEntry(f[n - 1], staged[n])
      OBVIOUS
    <3>1. CASE n = 0
      BY <1>1, <1>5, <2>1, <3>1, SummaryOfNothing
    <3>2. CASE n # 0
      <4>1. n \in 1 .. N /\ n - 1 \in 0 .. N
        BY <1>1, <3>2
      <4> QED
        BY <1>7, <2>1, <3>2, <4>1
    <3> QED
      BY <3>1, <3>2
  <2>3. f = [n \in 0 .. N |-> IF n = 0 THEN NoReport ELSE HookEntry(f[n - 1], staged[n])]
    BY <2>1, <2>2
  <2>4. Reports(staged, N, f)
    BY <2>3 DEF Reports
  <2> QED
    BY <2>1, <2>4
<1>9. PICK f : Reports(staged, N, f) /\ Hook(staged) = f[N]
  <2> DEFINE H == CHOOSE f : Reports(staged, N, f)
  <2>1. Reports(staged, N, H)
    BY <1>8
  <2>2. Hook(staged) = H[N]
    BY <1>1 DEF Hook, Reports
  <2> QED
    BY <2>1, <2>2
<1>10. \A n \in 0 .. N : f[n] = IF n = 0 THEN NoReport ELSE HookEntry(f[n - 1], staged[n])
  BY <1>9 DEF Reports
<1> DEFINE Wrong == {n \in 0 .. N : f[n] # Summary(First(n))}
<1>11. Wrong = {}
  <2> SUFFICES ASSUME Wrong # {} PROVE FALSE
    OBVIOUS
  <2>1. PICK n \in Wrong : \A m \in Wrong : n <= m
    <3>1. Wrong \in SUBSET Nat
      BY <1>1
    <3> QED
      BY <3>1, LeastExists
  <2>2. n # 0
    BY <1>1, <1>5, <1>10, <2>1, SummaryOfNothing
  <2>3. n \in 1 .. N /\ n - 1 \in 0 .. N /\ n - 1 \notin Wrong
    BY <1>1, <2>1, <2>2
  <2>4. f[n] = HookEntry(Summary(First(n - 1)), staged[n])
    BY <1>10, <2>1, <2>2, <2>3
  <2> QED
    BY <1>7, <2>1, <2>3, <2>4
<1> QED
  BY <1>1, <1>5, <1>9, <1>11

(* The report of the hook is a function of the set of staged files: neither  *)
(* the order in which git lists them nor a file that is listed twice changes   *)
(* anything, for any number of files.                                          *)
THEOREM HookReportsTheStagedSet ==
  OSpec => [](\A one, two \in Seq(StagedFiles) : ToSet(one) = ToSet(two) => Hook(one) = Hook(two))
<1>1. ASSUME OTypeOK, StoredInv
      PROVE  \A one, two \in Seq(StagedFiles) : ToSet(one) = ToSet(two) => Hook(one) = Hook(two)
  <2> SUFFICES ASSUME NEW one \in Seq(StagedFiles), NEW two \in Seq(StagedFiles),
                      ToSet(one) = ToSet(two)
               PROVE  Hook(one) = Hook(two)
    OBVIOUS
  <2>1. Hook(one) = Summary(ToSet(one)) /\ Hook(two) = Summary(ToSet(two))
    BY <1>1, HookIsSummary
  <2> QED
    BY <2>1
<1>2. OTypeOK /\ StoredInv =>
        \A one, two \in Seq(StagedFiles) : ToSet(one) = ToSet(two) => Hook(one) = Hook(two)
  BY <1>1
<1> QED
  BY <1>2, OwnershipTyped, AlwaysStored, PTL

LEMMA TwoMore == \A n \in Nat : 1 .. n + 2 = (1 .. n) \cup {n + 1, n + 2}
OBVIOUS

LEMMA Swapped ==
  ASSUME NEW before \in Seq(StagedFiles), NEW f \in StagedFiles, NEW g \in StagedFiles
  PROVE  /\ before \o <<f, g>> \in Seq(StagedFiles)
         /\ ToSet(before \o <<f, g>>) = ToSet(before) \cup {f, g}
<1>1. PICK n, q : n = Len(before) /\ n \in Nat /\ q = before \o <<f, g>>
  BY LenProperties
<1>2. <<f, g>> \in Seq(StagedFiles) /\ Len(<<f, g>>) = 2 /\ <<f, g>>[1] = f /\ <<f, g>>[2] = g
  OBVIOUS
<1>3. /\ q \in Seq(StagedFiles) /\ Len(q) = n + 2
      /\ \A i \in 1 .. n + 2 : q[i] = IF i <= n THEN before[i] ELSE <<f, g>>[i - n]
  BY <1>1, <1>2, ConcatProperties
<1>4. q[n + 1] = f /\ q[n + 2] = g /\ \A i \in 1 .. n : q[i] = before[i]
  BY <1>1, <1>2, <1>3
<1>5. 1 .. n + 2 = (1 .. n) \cup {n + 1, n + 2}
  BY <1>1, TwoMore
<1>6. ToSet(q) = {q[i] : i \in 1 .. n + 2} /\ ToSet(before) = {before[i] : i \in 1 .. n}
  BY <1>1, <1>3, LenProperties DEF ToSet
<1>7. \A x : x \in ToSet(q) <=> x = f \/ x = g \/ \E i \in 1 .. n : x = before[i]
  BY <1>4, <1>5, <1>6
<1>8. \A x : x \in ToSet(before) <=> \E i \in 1 .. n : x = before[i]
  BY <1>6
<1>9. ToSet(q) = ToSet(before) \cup {f, g}
  BY <1>7, <1>8
<1> QED
  BY <1>1, <1>3, <1>9

(* The case the model checker looks at: two files of a short list swapped.   *)
THEOREM HookOrderIsIrrelevant == OSpec => []HookIgnoresOrder
<1>1. ASSUME \A one, two \in Seq(StagedFiles) : ToSet(one) = ToSet(two) => Hook(one) = Hook(two)
      PROVE  HookIgnoresOrder
  <2> SUFFICES ASSUME NEW f \in StagedFiles, NEW g \in StagedFiles,
                      NEW before \in {<< >>} \cup {<<h>> : h \in StagedFiles \ {f, g}}
               PROVE  Hook(before \o <<f, g>>) = Hook(before \o <<g, f>>)
    BY DEF HookIgnoresOrder
  <2>1. before \in Seq(StagedFiles)
    <3>1. << >> \in Seq(StagedFiles)
      OBVIOUS
    <3>2. \A h \in StagedFiles : <<h>> \in Seq(StagedFiles)
      OBVIOUS
    <3> QED
      BY <3>1, <3>2
  <2>2. ToSet(before \o <<f, g>>) = ToSet(before \o <<g, f>>)
    <3>1. ToSet(before \o <<f, g>>) = ToSet(before) \cup {f, g}
      BY <2>1, Swapped
    <3>2. ToSet(before \o <<g, f>>) = ToSet(before) \cup {g, f}
      BY <2>1, Swapped
    <3> QED
      BY <3>1, <3>2
  <2> QED
    BY <1>1, <2>1, <2>2, Swapped
<1>2. (\A one, two \in Seq(StagedFiles) : ToSet(one) = ToSet(two) => Hook(one) = Hook(two))
        => HookIgnoresOrder
  BY <1>1
<1> QED
  BY <1>2, HookReportsTheStagedSet, PTL
=============================================================================
